---- MODULE Spec2Model ----
(***************************************************************************)
(* KiFisher (src/kifisher.py): the BOM pipeline of create_bill_of_materials *)
(* and the README splice of update_readme.                                  *)
(*                                                                          *)
(* Strings the code searches, splits, sorts or converts (designators, the   *)
(* mount type, the supplier name, the compacted reference string, numbers   *)
(* written with str()) are sequences of one-character strings.  Strings the *)
(* code only copies from a Component to a table cell are TLA+ strings.      *)
(***************************************************************************)
EXTENDS Integers, Sequences, FiniteSets, TLC

\* ------------------------------------------------------------------ bounds
MaxComps == 3
MaxDocLines == 4
MaxFragLines == 2
MaxSplices == 2
MaxAssyComps == 2
MaxPosLines == 2
MaxNetLines == 4
MaxRuns == 2

VARIABLES
  components,    \* the Comp() list create_component_list_from_netlist returned
  pc,            \* where create_bill_of_materials (or update_readme) stands
  vendors,       \* line 1053
  bom,           \* the list of BOMline()
  master_csv,    \* -bom-master.csv
  readable_csv,  \* -bom-readable.csv
  seeed_csv,     \* -bom-seeed.csv
  vendor_csv,    \* the vendor CSV files, by the vendor part of the file name
  bom_md,        \* -bom-readme.md (outbom_list)
  part_count,    \* line 1273
  place_count,   \* line 1272
  assy_md,       \* -assy-readme.md (outassy_list)
  readme,        \* README.md
  before,        \* README.md as the last update_readme found it
  newlines,      \* the lines of -bom-readme.md that update_readme read
  date_update,   \* data['date_update']
  splices,       \* runs of update_readme so far
  posfiles,      \* the lines of -top.pos and of -bottom.pos
  xyrs,          \* -assy.xyrs, a list of records of tab-separated columns
  netfile,       \* the lines of the .net file
  lineno,        \* lines of the .net file read so far
  comp_flag,     \* line 882
  first_flag,    \* line 893
  net_json,      \* line 891
  args,          \* the command-line flags
  exists,        \* which input files exist
  status,        \* "running", or how the process ended
  consulted,     \* the input files the run has tested or opened
  run,           \* 1 on the first run of the pipeline, 2 on the second
  first_out      \* the output files as the first run left them

bomvars ==
  << components, pc, vendors, bom, master_csv, readable_csv, seeed_csv, vendor_csv,
     bom_md, part_count, place_count, assy_md >>

bomvars_but_pc ==
  << components, vendors, bom, master_csv, readable_csv, seeed_csv, vendor_csv,
     bom_md, part_count, place_count, assy_md >>

readmevars == << readme, before, newlines, date_update, splices >>

assyvars == << posfiles, xyrs >>

parsevars == << netfile, lineno, comp_flag, first_flag, net_json >>

mainvars == << args, exists, status, consulted, run, first_out >>

othervars == << readmevars, assyvars, parsevars, mainvars >>

vars == << bomvars, othervars >>

\* ----------------------------------------------------------------- strings
\* The characters of the model in ASCII order (Python 2 compares str bytewise).
Alphabet ==
  << " ", "-", "0", "1", "2", "3", "4", "5", "6", "7", "8", "9",
     "A", "C", "D", "F", "M", "R", "U",
     "a", "b", "c", "d", "e", "f", "g", "h", "i", "k", "m", "n", "o", "p", "r", "s",
     "t", "u", "y" >>

Ord(c) == CHOOSE i \in 1..Len(Alphabet) : Alphabet[i] = c

Digits == << "0", "1", "2", "3", "4", "5", "6", "7", "8", "9" >>

IsDigit(c) == \E i \in 1..10 : Digits[i] = c

IsLetter(c) == Ord(c) > Ord("9")

\* str < str of Python 2: the first differing character decides, a proper
\* prefix is smaller.
RECURSIVE StrLess(_, _)
StrLess(a, b) ==
  IF b = << >> THEN FALSE
  ELSE IF a = << >> THEN TRUE
  ELSE IF Head(a) = Head(b) THEN StrLess(Tail(a), Tail(b))
  ELSE Ord(Head(a)) < Ord(Head(b))

\* sub in s
StartsWith(s, sub) ==
  /\ Len(sub) <= Len(s)
  /\ SubSeq(s, 1, Len(sub)) = sub

Contains(s, sub) ==
  \E i \in 0..(Len(s) - Len(sub)) : SubSeq(s, i + 1, i + Len(sub)) = sub

\* s.replace(old, ''): every non-overlapping occurrence, left to right.
RECURSIVE Remove(_, _)
Remove(s, old) ==
  IF s = << >> \/ old = << >> THEN s
  ELSE IF StartsWith(s, old) THEN Remove(SubSeq(s, Len(old) + 1, Len(s)), old)
  ELSE << Head(s) >> \o Remove(Tail(s), old)

\* s.split(' '): one token per separator, empty tokens kept.
RECURSIVE SplitFrom(_, _)
SplitFrom(s, cur) ==
  IF s = << >> THEN << cur >>
  ELSE IF Head(s) = " " THEN << cur >> \o SplitFrom(Tail(s), << >>)
  ELSE SplitFrom(Tail(s), Append(cur, Head(s)))

Split(s) == SplitFrom(s, << >>)

\* ' '.join(list)
RECURSIVE Join(_)
Join(toks) ==
  IF toks = << >> THEN << >>
  ELSE IF Len(toks) = 1 THEN toks[1]
  ELSE toks[1] \o << " " >> \o Join(Tail(toks))

\* int(tok) is defined on a non-empty run of digits (a designator suffix has
\* no sign); anything else raises ValueError.
IsIntLiteral(tok) == tok # << >> /\ \A i \in 1..Len(tok) : IsDigit(tok[i])

DigitVal(c) == (CHOOSE i \in 1..10 : Digits[i] = c) - 1

RECURSIVE ToIntAcc(_, _)
ToIntAcc(tok, acc) ==
  IF tok = << >> THEN acc ELSE ToIntAcc(Tail(tok), acc * 10 + DigitVal(Head(tok)))

ToInt(tok) == ToIntAcc(tok, 0)

\* str(n) for n >= 0
RECURSIVE ToStr(_)
ToStr(n) ==
  IF n < 10 THEN << Digits[n + 1] >> ELSE ToStr(n \div 10) \o << Digits[(n % 10) + 1] >>

\* v.lower()
LowerChar(c) ==
  CASE c = "A" -> "a" [] c = "C" -> "c" [] c = "D" -> "d" [] c = "F" -> "f"
    [] c = "M" -> "m" [] c = "R" -> "r" [] c = "U" -> "u" [] OTHER -> c

Lower(s) == [i \in 1..Len(s) |-> LowerChar(s[i])]

\* -------------------------------------------------------------- components
\* A Comp() as create_component_list_from_netlist returns it.  s1_parsed says
\* that the netlist record carried an S1_Name field, so that s1_name is the
\* object json.load made and not the class default ''.
Comp(ref, symbol, sym_lib, fp_lib, thsmt, s1_name, s1_parsed, s1_pn) ==
  [ ref |-> ref, value |-> "1uF", description |-> "PART", footprint |-> "RLC-0402",
    fp_lib |-> fp_lib, symbol |-> symbol, sym_lib |-> sym_lib, datasheet |-> "",
    mf_name |-> "", mf_pn |-> "GRM155", s1_name |-> s1_name, s1_parsed |-> s1_parsed,
    s1_pn |-> s1_pn, thsmt |-> thsmt, xsize_mils |-> "", ysize_mils |-> "",
    xloc |-> << >>, yloc |-> << >>, rot |-> << >>, side |-> << >> ]

Digikey == << "D", "i", "g", "i", "k", "e", "y" >>
Mouser == << "M", "o", "u", "s", "e", "r" >>

\* Mount types: the three the code names, one that only contains 'th', none.
Smt == << "s", "m", "t" >>
Th == << "t", "h" >>
Dnp == << "d", "n", "p" >>
Both == << "b", "o", "t", "h" >>

\* Reference designators of the boards explored.
RefUniverse ==
  { << "C", "1" >>, << "C", "2" >>, << "C", "1", "0" >>, << "R", "5" >>,
    << "U", "A", "1" >> }

\* What a netlist record can say about its part, besides the designator:
\* symbol, symbol library, footprint library, Type, S1_Name (given or not),
\* S1_PN.
Kinds ==
  { << "CAP", "wickerlib", "Wickerlib", Smt, Digikey, TRUE, "490-ND" >>,
    << "CAP", "device", "Device", Th, Mouser, TRUE, "81-GRM" >>,
    << "RES", "wickerlib", "Wickerlib", Both, Mouser, TRUE, "71-CRCW" >>,
    << "RES", "", "", Dnp, << >>, FALSE, "" >>,
    << "CONN", "", "", << >>, Digikey, TRUE, "609-ND" >> }

CompUniverse ==
  { Comp(r, k[1], k[2], k[3], k[4], k[5], k[6], k[7]) : r \in RefUniverse, k \in Kinds }

\* ------------------------------------------------- create_bill_of_materials
\* line 1049: c.s1_name is not ''.  An identity test: false for the class
\* default '' and true for every string json.load made, the empty one too.
IsNotEmptyLiteral(c) == c.s1_parsed

\* line 1050: the vendor loop compares the mount type for equality.
TypeIsPlaced(t) == t = Th \/ t = Smt \/ t = Dnp

\* lines 1047-1053
FigureVendors(comps) ==
  { comps[i].s1_name : i \in { j \in 1..Len(comps) :
        IsNotEmptyLiteral(comps[j]) /\ TypeIsPlaced(comps[j].thsmt) } }

\* line 1064: the BOM loop tests the mount type for substrings.
ToBePlaced(c) ==
  Contains(c.thsmt, Th) \/ Contains(c.thsmt, Smt) \/ Contains(c.thsmt, Dnp)

\* lines 1061, 1079-1091: a BOMline() with the attributes the code assigns.
\* The libraries are assigned to footprint_lib and symbol_lib; fp_lib and
\* sym_lib, which the tables print, keep the class default ''.
NewBomLine(c) ==
  [ refs |-> c.ref, qty |-> 1,
    footprint_lib |-> c.fp_lib, symbol_lib |-> c.sym_lib,
    fp_lib |-> "", sym_lib |-> "",
    footprint |-> c.footprint, symbol |-> c.symbol, datasheet |-> c.datasheet,
    description |-> c.description, mf_name |-> c.mf_name, mf_pn |-> c.mf_pn,
    s1_name |-> c.s1_name, s1_pn |-> c.s1_pn, thsmt |-> c.thsmt ]

\* A grouping that also compares the symbol library.
SameTypeAndLibrary(line, c) == line.symbol = c.symbol /\ line.symbol_lib = c.sym_lib

\* lines 1071-1074
SameType(line, c) == line.symbol = c.symbol

\* lines 1064-1092: one Component merged into the BOM.
AddComponent(b, c) ==
  IF ~ToBePlaced(c) THEN b
  ELSE IF \E i \in 1..Len(b) : SameType(b[i], c)
       THEN [ i \in 1..Len(b) |->
                IF SameType(b[i], c)
                THEN [ b[i] EXCEPT !.qty = @ + 1, !.refs = @ \o << " " >> \o c.ref ]
                ELSE b[i] ]
       ELSE Append(b, NewBomLine(c))

\* lines 1059-1092
RECURSIVE CreateBomLinesFrom(_, _)
CreateBomLinesFrom(comps, b) ==
  IF comps = << >> THEN b
  ELSE CreateBomLinesFrom(Tail(comps), AddComponent(b, Head(comps)))

CreateBomLines(comps) == CreateBomLinesFrom(comps, << >>)

\* line 1097: 'UA1' in b.refs
UA1 == << "U", "A", "1" >>

OverrideLabel == << "U", "A", "1", "-", "U", "F", "1" >>

HasOverride(refs) == Contains(refs, UA1)

\* line 1101: re.match(r"([a-z]+)([0-9]+)", refs_str, re.I): the leading
\* letters, when there is at least one and a digit follows them.
RECURSIVE LeadingLetters(_)
LeadingLetters(s) ==
  IF s = << >> \/ ~IsLetter(Head(s)) THEN << >>
  ELSE << Head(s) >> \o LeadingLetters(Tail(s))

ReMatches(s) ==
  LET lead == LeadingLetters(s)
  IN /\ lead # << >>
     /\ Len(s) > Len(lead)
     /\ IsDigit(s[Len(lead) + 1])

\* lines 1102-1104: items is assigned only on a match; otherwise it keeps the
\* groups of the BOM line before (<< >>: not assigned yet, a NameError).
NextItems(refs, items) == IF ReMatches(refs) THEN << LeadingLetters(refs) >> ELSE items

\* line 1108: refs_str.sort(key=int), then lines 1111-1113: the integers.
RECURSIVE InsertInt(_, _)
InsertInt(sorted, n) ==
  IF sorted = << >> THEN << n >>
  ELSE IF n < Head(sorted) THEN << n >> \o sorted
  ELSE << Head(sorted) >> \o InsertInt(Tail(sorted), n)

RECURSIVE SortInts(_)
SortInts(ns) ==
  IF ns = << >> THEN << >> ELSE InsertInt(SortInts(SubSeq(ns, 1, Len(ns) - 1)), ns[Len(ns)])

\* lines 1129-1134 and 1143-1148: one run as text.
RunText(first, last) ==
  IF first = last THEN ToStr(first) ELSE ToStr(first) \o << "-" >> \o ToStr(last)

\* lines 1122-1152: the scan over the sorted integers.
RECURSIVE ScanRuns(_, _, _, _, _)
ScanRuns(ints, k, prev_num, seq_start, out) ==
  IF k > Len(ints) THEN out
  ELSE LET num == ints[k]
           gap == num # ints[1] /\ num - prev_num # 1
           out1 == IF gap THEN Append(out, RunText(seq_start, prev_num)) ELSE out
           start1 == IF gap THEN num ELSE seq_start
           out2 == IF num = ints[Len(ints)]
                   THEN Append(out1, RunText(start1, num)) ELSE out1
       IN ScanRuns(ints, k + 1, num, start1, out2)

\* lines 1107-1160, given the leading characters.
Tokens(refs, lead_str) == Split(Remove(refs, lead_str))

CompactWith(refs, lead_str) ==
  LET toks == Tokens(refs, lead_str)
      ints == SortInts([ i \in 1..Len(toks) |-> ToInt(toks[i]) ])
      runs == ScanRuns(ints, 1, ints[1], ints[1], << >>)
  IN Join([ i \in 1..Len(runs) |-> lead_str \o runs[i] ])

\* Whether lines 1099-1160 raise on this BOM line: items not assigned yet
\* (line 1104), or a token that int() rejects (line 1108).
CompactRaises(refs, items) ==
  /\ ~HasOverride(refs)
  /\ LET it == NextItems(refs, items)
     IN \/ it = << >>
        \/ \E i \in 1..Len(Tokens(refs, it[1])) : ~IsIntLiteral(Tokens(refs, it[1])[i])

\* lines 1096-1162: the compacted string of one BOM line.
Compact(refs, items) ==
  IF HasOverride(refs) THEN OverrideLabel
  ELSE CompactWith(refs, NextItems(refs, items)[1])

\* lines 1094-1162 over the whole BOM: the BOM with every refs compacted and
\* whether the loop ran to its end.
RECURSIVE CompactFrom(_, _, _)
CompactFrom(b, k, items) ==
  IF k > Len(b) THEN [ ok |-> TRUE, bom |-> b ]
  ELSE IF CompactRaises(b[k].refs, items) THEN [ ok |-> FALSE, bom |-> b ]
  ELSE CompactFrom([ b EXCEPT ![k].refs = Compact(b[k].refs, items) ], k + 1,
                   IF HasOverride(b[k].refs) THEN items ELSE NextItems(b[k].refs, items))

CompactRefs(b) == CompactFrom(b, 1, << >>)

\* line 1171: bom.sort(key=lambda x: x.refs), a stable sort on the strings.
RECURSIVE InsertLine(_, _)
InsertLine(sorted, line) ==
  IF sorted = << >> THEN << line >>
  ELSE IF StrLess(line.refs, Head(sorted).refs) THEN << line >> \o sorted
  ELSE << Head(sorted) >> \o InsertLine(Tail(sorted), line)

\* The BOM left in first-seen order.
Unsorted(b) == b

RECURSIVE SortBom(_)
SortBom(b) ==
  IF b = << >> THEN << >> ELSE InsertLine(SortBom(SubSeq(b, 1, Len(b) - 1)), b[Len(b)])

\* ------------------------------------------------------------------ tables
\* A table is a sequence of rows, the header first; a row is the tuple of its
\* comma-separated cells (no attribute of the boards explored holds a comma).
\* obom.write(','+x) if x else obom.write(',') writes the cell x either way.
MasterHeader ==
  << "Ref", "Qty1", "Qty3", "Footprint", "Footprint Library", "Symbol",
     "Symbol Library", "Datasheet", "MF_Name", "MF_PN", "S1_Name", "S1_PN", "Type" >>

\* A master row with the board quantity in the Qty3 column as well.
MasterRowNoTripling(b) ==
  << b.refs, ToStr(b.qty), ToStr(b.qty), b.footprint, b.fp_lib, b.symbol,
     b.sym_lib, b.datasheet, b.mf_name, b.mf_pn, b.s1_name, b.s1_pn, b.thsmt >>

\* lines 1185-1193
MasterRow(b) ==
  << b.refs, ToStr(b.qty), ToStr(b.qty * 3), b.footprint, b.fp_lib, b.symbol,
     b.sym_lib, b.datasheet, b.mf_name, b.mf_pn, b.s1_name, b.s1_pn, b.thsmt >>

\* lines 1181-1193
MasterTable(b) == << MasterHeader >> \o [ i \in 1..Len(b) |-> MasterRow(b[i]) ]

ReadableHeader ==
  << "Ref", "Qty", "Qty3", "Description", "MF", "MF_PN", "S1", "S1_PN", "Type" >>

\* lines 1202-1211
ReadableRow(b) ==
  << b.refs, ToStr(b.qty), ToStr(b.qty * 3), b.description, b.mf_name, b.mf_pn,
     b.s1_name, b.s1_pn, b.thsmt >>

\* lines 1198-1211
ReadableTable(b) == << ReadableHeader >> \o [ i \in 1..Len(b) |-> ReadableRow(b[i]) ]

SeeedHeader == << "Location", "MPN/Seeed SKU", "Quantity" >>

\* line 1221
SeeedRow(b) == << b.refs, b.mf_pn, ToStr(b.qty) >>

\* lines 1220, 1243: the quantity test of the Seeed and vendor loops.
HasQty(b) == b.qty > 0

RECURSIVE SelectRows(_, _)
SelectRows(b, keep) ==
  IF b = << >> THEN << >>
  ELSE (IF keep[1] THEN << Head(b) >> ELSE << >>)
       \o SelectRows(Tail(b), Tail(keep))

\* lines 1217-1221
SeeedTable(b) ==
  LET kept == SelectRows(b, [ i \in 1..Len(b) |-> HasQty(b[i]) ])
  IN << SeeedHeader >> \o [ i \in 1..Len(kept) |-> SeeedRow(kept[i]) ]

PN == << " ", "P", "N" >>

\* line 1238
VendorHeader(v) == << "Ref", "Qty", "Qty3", "Description", v \o PN >>

\* line 1244
VendorRow(b) == << b.refs, ToStr(b.qty), ToStr(b.qty * 3), b.description, b.s1_pn >>

\* line 1243
InVendorTable(b, v) == HasQty(b) /\ b.s1_name = v

VendorLines(b, v) == SelectRows(b, [ i \in 1..Len(b) |-> InVendorTable(b[i], v) ])

\* lines 1232-1244: outcsv_list of vendor v; the header is appended inside the
\* loop over the BOM, so an empty BOM gives an empty file.
VendorTable(b, v) ==
  IF b = << >> THEN << >>
  ELSE << VendorHeader(v) >>
       \o [ i \in 1..Len(VendorLines(b, v)) |-> VendorRow(VendorLines(b, v)[i]) ]

\* line 1233: the file name of vendor v's table.
VendorFile(v) == Lower(v)

\* lines 1239-1247: what vendor v appends to outbom_list.  Each entry is
\* written with a newline added, so the entry '\n' makes two empty lines.
MdLine(kind, cells) == [ kind |-> kind, cells |-> cells ]

MdRow(b) == MdLine("row", << b.refs, ToStr(b.qty), b.description, b.s1_pn >>)

MdTable(b, v) ==
  (IF b = << >> THEN << >>
   ELSE << MdLine("header", << "Ref", "Qty", "Description", v \o PN >>),
           MdLine("separator", << "---", "---", "-----------", "------" >>) >>)
  \o [ i \in 1..Len(VendorLines(b, v)) |-> MdRow(VendorLines(b, v)[i]) ]
  \o << MdLine("blank", << >>), MdLine("blank", << >>) >>

\* lines 1231-1260 for the vendors in iteration order: the vendor CSV files by
\* name (a later vendor with the same file name overwrites) and outbom_list.
RECURSIVE VendorFiles(_, _, _)
VendorFiles(b, order, files) ==
  IF order = << >> THEN files
  ELSE LET v == Head(order)
           name == VendorFile(v)
       IN VendorFiles(b, Tail(order),
            [ f \in DOMAIN files \cup { name } |->
                IF f = name THEN VendorTable(b, v) ELSE files[f] ])

RECURSIVE Markdown(_, _)
Markdown(b, order) ==
  IF order = << >> THEN << >>
  ELSE MdTable(b, Head(order)) \o Markdown(b, Tail(order))

\* for v in vendors: a set is iterated in an order the code does not choose.
Orders(vs) ==
  { o \in [ 1..Cardinality(vs) -> vs ] : \A i, j \in 1..Cardinality(vs) : i # j => o[i] # o[j] }

\* lines 1268-1273
RECURSIVE PlaceCount(_)
PlaceCount(b) ==
  IF b = << >> THEN 0
  ELSE (IF HasQty(Head(b)) THEN Head(b).qty ELSE 0) + PlaceCount(Tail(b))

RECURSIVE PartCount(_)
PartCount(b) ==
  IF b = << >> THEN 0
  ELSE (IF HasQty(Head(b)) THEN 1 ELSE 0) + PartCount(Tail(b))

\* lines 1275-1286: -assy-readme.md.  Each entry ends with a newline and is
\* written with one more, so an empty line follows it.  The first label is
\* printed with part_count, the second with place_count.
PlacementsLabel == "Individual Placements per board: "
PartsLabel == "Number of Parts: "

AssySummary(parts, places) ==
  << << PlacementsLabel >> \o ToStr(parts), << >>,
     << PartsLabel >> \o ToStr(places), << >> >>

\* ----------------------------------------------------------- update_readme
\* A line of README.md or of the BOM fragment is the sequence of its pieces;
\* 'x' in line holds when x is one of them.  Every line ends with a newline,
\* as in the README that create_readme writes.
InLine(x, line) == \E i \in 1..Len(line) : line[i] = x

UpdatedTag == "Updated: "
BomStartTag == "<!--- bom start"
BomEndTag == "<!--- bom end"

\* line 1481
UpdatedLine(date) == << "- ", UpdatedTag, date >>

\* line 1487: '### Bill of Materials\n\n', two lines of the file.
Heading == << << "### Bill of Materials" >>, << >> >>

\* lines 1478-1493 without the skipping: the lines after the start marker
\* are copied as well.
RECURSIVE ScanNoSkip(_, _, _, _, _)
ScanNoSkip(lines, frag, date, write_bom, tempfile) ==
  IF lines = << >> THEN tempfile
  ELSE LET line == Head(lines)
       IN IF InLine(UpdatedTag, line)
          THEN ScanNoSkip(Tail(lines), frag, date, write_bom,
                          Append(tempfile, UpdatedLine(date)))
          ELSE IF ~write_bom /\ InLine(BomStartTag, line)
          THEN ScanNoSkip(Tail(lines), frag, date, TRUE,
                          Append(tempfile, line) \o Heading \o frag)
          ELSE ScanNoSkip(Tail(lines), frag, date,
                          write_bom /\ ~InLine(BomEndTag, line), Append(tempfile, line))

\* lines 1478-1493: the scan of README.md; write_bom is the skipping flag.
RECURSIVE Scan(_, _, _, _, _)
Scan(lines, frag, date, write_bom, tempfile) ==
  IF lines = << >> THEN tempfile
  ELSE LET line == Head(lines)
       IN IF InLine(UpdatedTag, line)
          THEN Scan(Tail(lines), frag, date, write_bom,
                    Append(tempfile, UpdatedLine(date)))
          ELSE IF ~write_bom
          THEN IF InLine(BomStartTag, line)
               THEN Scan(Tail(lines), frag, date, TRUE,
                         Append(tempfile, line) \o Heading \o frag)
               ELSE Scan(Tail(lines), frag, date, FALSE, Append(tempfile, line))
          ELSE IF InLine(BomEndTag, line)
               THEN Scan(Tail(lines), frag, date, FALSE, Append(tempfile, line))
               ELSE Scan(Tail(lines), frag, date, TRUE, tempfile)

\* lines 1466-1497: README.md after update_readme with the BOM flag.
Splice(doc, frag, date) == Scan(doc, frag, date, FALSE, << >>)

\* lines 1501-1530: the same scan for the assembly section.
AssyStartTag == "<!--- assy start"
AssyEndTag == "<!--- assy end"

AssyHeading == << << "### Assembly Info for Quoting" >>, << >> >>

RECURSIVE ScanAssy(_, _, _, _, _)
ScanAssy(lines, frag, date, write_assy, tempfile) ==
  IF lines = << >> THEN tempfile
  ELSE LET line == Head(lines)
       IN IF InLine(UpdatedTag, line)
          THEN ScanAssy(Tail(lines), frag, date, write_assy,
                        Append(tempfile, UpdatedLine(date)))
          ELSE IF ~write_assy
          THEN IF InLine(AssyStartTag, line)
               THEN ScanAssy(Tail(lines), frag, date, TRUE,
                             Append(tempfile, line) \o AssyHeading \o frag)
               ELSE ScanAssy(Tail(lines), frag, date, FALSE, Append(tempfile, line))
          ELSE IF InLine(AssyEndTag, line)
               THEN ScanAssy(Tail(lines), frag, date, FALSE, Append(tempfile, line))
               ELSE ScanAssy(Tail(lines), frag, date, TRUE, tempfile)

\* lines 329-351: the README.md that create_readme writes
NewReadme(date) ==
  << << "<!--- start title --->" >>,
     << "# Title v1.0" >>,
     << "A board." >>,
     << >>,
     << "- ", UpdatedTag, date >>,
     << >>,
     << "- Website: wickerbox.net" >>,
     << "- Company: Wickerbox Electronics" >>,
     << "- License: GPLv3" >>,
     << "<!--- end title --->" >>,
     << >>,
     << "Description." >>,
     << >>,
     << BomStartTag, " --->" >> >>
  \o Heading
  \o << << BomEndTag, " --->" >>, << AssyStartTag, " --->" >> >>
  \o AssyHeading
  \o << << AssyEndTag, " --->" >>,
        << "![Assembly Diagram](assembly.png)" >>, << >>,
        << "![Gerber Preview](preview.png)" >>, << >> >>

\* lines 1249-1260 and 1472-1474: a line of -bom-readme.md as update_readme
\* reads it back, cell by cell between the bars.
MdText(md) ==
  CASE md.kind = "header" ->
         << "|", "Ref", "|", "Qty", "|", "Description", "|" >> \o md.cells[4] \o << "|" >>
    [] md.kind = "separator" -> << "|---|---|-----------|------|" >>
    [] md.kind = "row" ->
         << "|" >> \o md.cells[1] \o << "|" >> \o md.cells[2]
           \o << "|", md.cells[3], "|", md.cells[4], "|" >>
    [] OTHER -> << >>

\* lines 1455-1530 with if in the place of elif at line 1501: both sections
\* are spliced when both flags are given.
UpdatedReadmeBoth(doc, a, md, summary, date) ==
  LET host == IF doc = << >> THEN NewReadme(date) ELSE doc
      bom_done == IF a.bom
                  THEN Scan(host, [k \in 1..Len(md) |-> MdText(md[k])], date, FALSE, << >>)
                  ELSE host
  IN IF a.assy THEN ScanAssy(bom_done, summary, date, FALSE, << >>) ELSE bom_done

\* lines 1455-1530: README.md after update_readme; doc is << >> when there
\* is no README.md yet.
UpdatedReadme(doc, a, md, summary, date) ==
  LET host == IF doc = << >> THEN NewReadme(date) ELSE doc
  IN IF a.bom THEN Scan(host, [k \in 1..Len(md) |-> MdText(md[k])], date, FALSE, << >>)
     ELSE IF a.assy THEN ScanAssy(host, summary, date, FALSE, << >>)
     ELSE host

\* ---------------------------------------- create_component_list_from_netlist
\* A line of the .net file is the sequence of its pieces: the markers the
\* parser looks for, parentheses, colons, quotes, blanks, and the text between
\* them.  Text the pipeline searches or compares later (designator, Type,
\* S1_Name) is spelled character by character, other text is one piece.

\* 'marker' in piece: '(ref ' is also found in the markers that end with it.
PieceHas(piece, marker) ==
  \/ piece = marker
  \/ marker = "(ref " /\ piece \in { "(comp (ref ", "(node (ref " }

\* marker in line
Has(marker, line) == \E k \in 1..Len(line) : PieceHas(line[k], marker)

IsBlank(piece) == piece \in { " ", "  ", "    " }

\* line.replace(x, '') for the pieces x
Without(line, pieces) == SelectSeq(line, LAMBDA x : x \notin pieces)

\* line.replace(')', ''): the closing parentheses go, the one before a blank
\* leaves the blank.
RemoveParens(line) ==
  Without([k \in 1..Len(line) |-> IF line[k] = ") " THEN " " ELSE line[k]], { ")" })

\* line.replace(') ', ':')
ParenBlankToColon(line) == [k \in 1..Len(line) |-> IF line[k] = ") " THEN ":" ELSE line[k]]

\* line.lstrip(' ')
RECURSIVE LStrip(_)
LStrip(line) ==
  IF line # << >> /\ IsBlank(Head(line)) THEN LStrip(Tail(line)) ELSE line

\* line.strip('))'): closing parentheses off both ends
RECURSIVE StripParens(_)
StripParens(line) ==
  IF line # << >> /\ Head(line) = ")" THEN StripParens(Tail(line))
  ELSE IF line # << >> /\ line[Len(line)] = ")" THEN StripParens(SubSeq(line, 1, Len(line) - 1))
  ELSE line

\* line.split(':')
RECURSIVE SplitColon(_, _)
SplitColon(line, cur) ==
  IF line = << >> THEN << cur >>
  ELSE IF Head(line) = ":" THEN << cur >> \o SplitColon(Tail(line), << >>)
  ELSE SplitColon(Tail(line), Append(cur, Head(line)))

\* splitline[0].lower() on the field names of the netlists explored
LowerName(piece) ==
  CASE piece = "Type" -> "type"
    [] piece = "Description" -> "description"
    [] piece = "S1_Name" -> "s1_name"
    [] piece = "S1_PN" -> "s1_pn"
    [] piece = "MF_PN" -> "mf_pn"
    [] OTHER -> piece

\* The entries of net_json: '[', ',', '{ "ref":"..",', '"key":"value"' with
\* or without its comma, '}' and ']'.
JOpen == [t |-> "["]
JSep == [t |-> ","]
JRef(v) == [t |-> "{ref", value |-> v]
JPair(k, v) == [t |-> "pair,", key |-> k, value |-> v]
JLast(k, v) == [t |-> "pair", key |-> k, value |-> v]
JClose == [t |-> "}"]
JEnd == [t |-> "]"]

\* lines 903-909
RefBlock(st) ==
  IF ~Has("(ref ", st.line) THEN st
  ELSE LET cleaned == LStrip(Without(RemoveParens(st.line), { "(comp (ref " }))
       IN [st EXCEPT
             !.net_json = (IF st.first_flag THEN @ ELSE Append(@, JSep)) \o << JRef(cleaned) >>,
             !.first_flag = FALSE,
             !.line = << "{ ref:" >> \o cleaned \o << "," >>]

\* lines 910-914
ValueBlock(st) ==
  IF ~Has("(value ", st.line) THEN st
  ELSE LET cleaned == LStrip(Without(RemoveParens(st.line), { "\"", "(value " }))
       IN [st EXCEPT !.net_json = Append(@, JPair(<< "value" >>, cleaned)),
                     !.line = << "value:" >> \o cleaned \o << "," >>]

\* lines 915-919: splitline[1] raises IndexError without a colon.
FootprintBlock(st) ==
  IF ~Has("(footprint ", st.line) THEN st
  ELSE LET cleaned == LStrip(Without(RemoveParens(st.line), { "(footprint " }))
           splitline == SplitColon(cleaned, << >>)
       IN IF Len(splitline) < 2 THEN [st EXCEPT !.ok = FALSE]
          ELSE [st EXCEPT !.net_json = @ \o << JPair(<< "footprint_lib" >>, splitline[1]),
                                               JPair(<< "footprint" >>, splitline[2]) >>,
                          !.line = cleaned]

\* lines 920-922
DatasheetBlock(st) ==
  IF ~Has("(datasheet ", st.line) THEN st
  ELSE LET cleaned == LStrip(Without(RemoveParens(st.line), { "\"", "(datasheet " }))
       IN [st EXCEPT !.net_json = Append(@, JPair(<< "datasheet" >>, cleaned)),
                     !.line = cleaned]

\* lines 923-927: splitline[1] raises IndexError when no value follows the name.
FieldBlock(st) ==
  IF ~Has("(field (name ", st.line) THEN st
  ELSE LET cleaned ==
             StripParens(Without(LStrip(Without(ParenBlankToColon(st.line),
                                                { "(field (name " })), { "\"" }))
           splitline == SplitColon(cleaned, << >>)
       IN IF Len(splitline) < 2 THEN [st EXCEPT !.ok = FALSE]
          ELSE [st EXCEPT
                  !.net_json = Append(@, JPair([k \in 1..Len(splitline[1]) |->
                                                  LowerName(splitline[1][k])], splitline[2])),
                  !.line = cleaned]

\* lines 928-934
LibsourceBlock(st) ==
  IF ~Has("(libsource (lib ", st.line) THEN st
  ELSE LET cleaned ==
             StripParens(Without(LStrip(Without(ParenBlankToColon(st.line),
                                                { "(libsource (lib " })), { "(part " }))
           splitline == SplitColon(cleaned, << >>)
       IN IF Len(splitline) < 2 THEN [st EXCEPT !.ok = FALSE]
          ELSE [st EXCEPT !.net_json = @ \o << JPair(<< "symbol_lib" >>, splitline[1]),
                                               JLast(<< "symbol" >>, splitline[2]), JClose >>,
                          !.line = cleaned]

\* One block after the other; an exception skips the rest.
Then(st, block(_)) == IF st.ok THEN block(st) ELSE st

\* lines 897-934: one line of the file.
ParseOneLine(line, flag, first, json) ==
  LET comp == IF Has("(libparts", line) THEN FALSE
              ELSE IF Has("(components", line) THEN TRUE ELSE flag
      st0 == [line |-> line, net_json |-> json, first_flag |-> first, ok |-> TRUE]
      st == IF ~comp THEN st0
            ELSE Then(Then(Then(Then(Then(RefBlock(st0), ValueBlock), FootprintBlock),
                                DatasheetBlock), FieldBlock), LibsourceBlock)
  IN [comp_flag |-> comp, first_flag |-> st.first_flag, net_json |-> st.net_json,
      ok |-> st.ok]

\* lines 936-950: json.load of what was written.  The text is JSON when it
\* is '[', objects separated by commas, ']', and each object runs from its
\* '{ "ref"' entry over entries with a comma to one without and its '}'.
\* Anything else raises ValueError.  A key given twice keeps its last value.
RECURSIVE JsonLoad(_, _, _, _)
JsonLoad(toks, at, cur, objs) ==
  IF toks = << >> THEN [ok |-> at = "end", objs |-> objs]
  ELSE LET tok == Head(toks)
           rest == Tail(toks)
           fail == [ok |-> FALSE, objs |-> << >>]
       IN CASE at = "start" ->
                 IF tok.t = "[" THEN JsonLoad(rest, "first", << >>, objs) ELSE fail
            [] at = "first" ->
                 IF tok.t = "{ref"
                 THEN JsonLoad(rest, "in", << [key |-> << "ref" >>, value |-> tok.value] >>, objs)
                 ELSE IF tok.t = "]" THEN JsonLoad(rest, "end", << >>, objs) ELSE fail
            [] at = "in" ->
                 IF tok.t = "pair,"
                 THEN JsonLoad(rest, "in", Append(cur, [key |-> tok.key, value |-> tok.value]), objs)
                 ELSE IF tok.t = "pair"
                 THEN JsonLoad(rest, "last", Append(cur, [key |-> tok.key, value |-> tok.value]), objs)
                 ELSE fail
            [] at = "last" ->
                 IF tok.t = "}" THEN JsonLoad(rest, "after", << >>, Append(objs, cur)) ELSE fail
            [] at = "after" ->
                 IF tok.t = "," THEN JsonLoad(rest, "comma", << >>, objs)
                 ELSE IF tok.t = "]" THEN JsonLoad(rest, "end", << >>, objs) ELSE fail
            [] at = "comma" ->
                 IF tok.t = "{ref"
                 THEN JsonLoad(rest, "in", << [key |-> << "ref" >>, value |-> tok.value] >>, objs)
                 ELSE fail
            [] OTHER -> fail

\* c[key] of a loaded object, or the class default of the attribute
HasKey(obj, key) == \E k \in 1..Len(obj) : obj[k].key = key

ValueOf(obj, key) ==
  IF HasKey(obj, key)
  THEN obj[CHOOSE k \in 1..Len(obj) :
             obj[k].key = key /\ \A j \in (k + 1)..Len(obj) : obj[j].key # key].value
  ELSE << >>

\* Text the pipeline only copies is one piece in the netlists explored.
CopyText(v) == IF v = << >> THEN "" ELSE v[1]

\* lines 958-993: the Comp() of one loaded object
NewComp(obj) ==
  [ ref |-> ValueOf(obj, << "ref" >>),
    value |-> CopyText(ValueOf(obj, << "value" >>)),
    description |-> CopyText(ValueOf(obj, << "description" >>)),
    footprint |-> CopyText(ValueOf(obj, << "footprint" >>)),
    fp_lib |-> CopyText(ValueOf(obj, << "footprint_lib" >>)),
    symbol |-> CopyText(ValueOf(obj, << "symbol" >>)),
    sym_lib |-> CopyText(ValueOf(obj, << "symbol_lib" >>)),
    datasheet |-> CopyText(ValueOf(obj, << "datasheet" >>)),
    mf_name |-> CopyText(ValueOf(obj, << "mf_name" >>)),
    mf_pn |-> CopyText(ValueOf(obj, << "mf_pn" >>)),
    s1_name |-> ValueOf(obj, << "s1_name" >>),
    s1_parsed |-> HasKey(obj, << "s1_name" >>),
    s1_pn |-> CopyText(ValueOf(obj, << "s1_pn" >>)),
    thsmt |-> ValueOf(obj, << "type" >>),
    xsize_mils |-> CopyText(ValueOf(obj, << "xsize_mils" >>)),
    ysize_mils |-> CopyText(ValueOf(obj, << "ysize_mils" >>)),
    xloc |-> << >>, yloc |-> << >>, rot |-> << >>, side |-> << >> ]

\* lines 936-995: what the function returns for the entries collected, or
\* the exception of json.load
LoadComponents(json) ==
  LET loaded == JsonLoad(Append(json, JEnd), "start", << >>, << >>)
  IN [ok |-> loaded.ok,
      components |-> [k \in 1..Len(loaded.objs) |-> NewComp(loaded.objs[k])]]

\* ---------------------------------------------------- create_assembly_files
\* A line of a .pos file is the list of its blank-separated tokens (lines
\* 1372-1373), each a sequence of characters.

\* line 1370: '#' in line
IsComment(toks) == \E k \in 1..Len(toks) : Contains(toks[k], << "#" >>)

RECURSIVE Pow10(_)
Pow10(d) == IF d = 0 THEN 1 ELSE 10 * Pow10(d - 1)

\* The parts of a decimal literal: sign, digits before and after the point.
Unsigned(tok) == IF tok # << >> /\ Head(tok) = "-" THEN Tail(tok) ELSE tok
IsNegative(tok) == tok # << >> /\ Head(tok) = "-"
PointAt(tok) ==
  IF \E k \in 1..Len(tok) : tok[k] = "." THEN CHOOSE k \in 1..Len(tok) : tok[k] = "."
  ELSE Len(tok) + 1
IntPart(tok) == SubSeq(Unsigned(tok), 1, PointAt(Unsigned(tok)) - 1)
FracPart(tok) == SubSeq(Unsigned(tok), PointAt(Unsigned(tok)) + 1, Len(Unsigned(tok)))

\* float(tok) is defined on [-]digits[.digits] with a digit somewhere;
\* anything else raises ValueError.
IsFloatLiteral(tok) ==
  /\ IntPart(tok) \o FracPart(tok) # << >>
  /\ \A k \in 1..Len(IntPart(tok)) : IsDigit(IntPart(tok)[k])
  /\ \A k \in 1..Len(FracPart(tok)) : IsDigit(FracPart(tok)[k])

Sign(tok) == IF IsNegative(tok) THEN << "-" >> ELSE << >>

\* lines 1377-1378 without the factor of 1000: str(float(tok))
InchesStr(tok) ==
  Sign(tok) \o ToStr(ToInt(IntPart(tok))) \o << "." >>
    \o (IF FracPart(tok) = << >> THEN << "0" >> ELSE FracPart(tok))

\* lines 1377-1378: str(float(tok)*1000) for a literal of at most four
\* decimals: the value in thousandths, and the tenth of a thousandth that a
\* fourth decimal leaves behind the point.
MilsStr(tok) ==
  LET d == Len(FracPart(tok))
      n == ToInt(IntPart(tok) \o FracPart(tok))
  IN IF d <= 3
     THEN Sign(tok) \o ToStr(n * Pow10(3 - d)) \o << ".", "0" >>
     ELSE Sign(tok) \o ToStr(n \div Pow10(d - 3)) \o << "." >> \o ToStr(n % Pow10(d - 3))

\* line 1379: '{:.2f}'.format(float(tok)), the hundredths rounded to the
\* nearest, a tie to the even one.
TwoDecimals(tok) ==
  LET d == Len(FracPart(tok))
      scaled == ToInt(IntPart(tok) \o FracPart(tok)) * 100
      q == Pow10(d)
      base == scaled \div q
      r == scaled % q
      h == IF 2 * r > q \/ (2 * r = q /\ base % 2 = 1) THEN base + 1 ELSE base
  IN Sign(tok) \o ToStr(h \div 100) \o << "." >> \o ToStr((h % 100) \div 10) \o ToStr(h % 10)

\* line 1376 with a prefix test in the place of the comparison
RefStartsLine(c, toks) == StartsWith(c.ref, toks[1])

\* line 1376: c.ref == line[0]
RefIsLine(c, toks) == c.ref = toks[1]

\* lines 1377-1380
Located(c, toks) ==
  [c EXCEPT !.xloc = MilsStr(toks[4]), !.yloc = MilsStr(toks[5]),
            !.rot = TwoDecimals(toks[6]), !.side = toks[7]]

\* lines 1376-1380 raise IndexError on a line without tokens and on a
\* matching line of fewer than seven, ValueError on a number float() rejects.
MergeRaises(c, toks) ==
  \/ toks = << >>
  \/ /\ RefIsLine(c, toks)
     /\ \/ Len(toks) < 7
        \/ \E k \in 4..6 : ~IsFloatLiteral(toks[k])

\* lines 1375-1380: one line against every Component, in their order.
RECURSIVE MergeLine(_, _, _)
MergeLine(comps, k, toks) ==
  IF k > Len(comps) THEN [ok |-> TRUE, comps |-> comps]
  ELSE IF MergeRaises(comps[k], toks) THEN [ok |-> FALSE, comps |-> comps]
  ELSE IF RefIsLine(comps[k], toks)
       THEN MergeLine([comps EXCEPT ![k] = Located(comps[k], toks)], k + 1, toks)
       ELSE MergeLine(comps, k + 1, toks)

\* lines 1369-1380: the lines of one file
RECURSIVE MergeFile(_, _)
MergeFile(comps, lines) ==
  IF lines = << >> THEN [ok |-> TRUE, comps |-> comps]
  ELSE IF IsComment(Head(lines)) THEN MergeFile(comps, Tail(lines))
  ELSE LET r == MergeLine(comps, 1, Head(lines))
       IN IF r.ok THEN MergeFile(r.comps, Tail(lines)) ELSE r

\* lines 1365-1380 with the tuple of line 1365 in the other order:
\* -bottom.pos, then -top.pos
MergeBottomFirst(comps, files) ==
  LET bottom == MergeFile(comps, files[2])
  IN IF bottom.ok THEN MergeFile(bottom.comps, files[1]) ELSE bottom

\* lines 1368-1380: -top.pos, then -bottom.pos
MergePositions(comps, files) ==
  LET top == MergeFile(comps, files[1])
  IN IF top.ok THEN MergeFile(top.comps, files[2]) ELSE top

\* lines 1392-1394; the continuation line leaves its indentation in the
\* eighth column.
XyrsHeader ==
  << "#Designator", "X-Loc", "Y-Loc", "Rotation", "Side", "Type", "X-Size",
     "Y-Size                ", "Value", "Footprint", "Populate", "MPN" >>

\* line 1064's substring tests in the place of line 1397
InManifestBySubstring(x) == ToBePlaced(x)

\* line 1397
InManifest(x) == x.thsmt = Th \/ x.thsmt = Smt

\* oxyrs.write('\t'+v) if v else oxyrs.write('\t'): one column
Column(v, empty) == IF v # empty THEN << v >> ELSE << empty >>

\* lines 1403-1408
TypeColumn(x) ==
  IF x.thsmt = Th THEN << "2" >> ELSE IF x.thsmt = Smt THEN << "1" >> ELSE << "" >>

\* line 1414: '\t'+x.mf_pn, or '\t\t' when there is none: two columns
MpnColumns(x) == IF x.mf_pn # "" THEN << x.mf_pn >> ELSE << "", "" >>

\* lines 1398-1415: one record, as the list of its tab-separated columns
XyrsRow(x) ==
  << x.ref >> \o Column(x.xloc, << >>) \o Column(x.yloc, << >>) \o Column(x.rot, << >>)
    \o Column(x.side, << >>) \o TypeColumn(x) \o Column(x.xsize_mils, "")
    \o Column(x.ysize_mils, "") \o Column(x.value, "") \o Column(x.footprint, "")
    \o << "1" >> \o MpnColumns(x)

RECURSIVE XyrsRows(_)
XyrsRows(comps) ==
  IF comps = << >> THEN << >>
  ELSE (IF InManifest(Head(comps)) THEN << XyrsRow(Head(comps)) >> ELSE << >>)
         \o XyrsRows(Tail(comps))

\* lines 1392-1415
XyrsTable(comps) == << XyrsHeader >> \o XyrsRows(comps)

\* --------------------------------------------- the BOM run as a state machine
NoReadme ==
  /\ readme = << >>
  /\ before = << >>
  /\ newlines = << >>
  /\ date_update = ""
  /\ splices = 0

NoOutput ==
  /\ vendors = {}
  /\ bom = << >>
  /\ master_csv = << >>
  /\ readable_csv = << >>
  /\ seeed_csv = << >>
  /\ vendor_csv = << >>
  /\ bom_md = << >>
  /\ part_count = 0
  /\ place_count = 0
  /\ assy_md = << >>

NoAssy ==
  /\ posfiles = << << >>, << >> >>
  /\ xyrs = << >>

NoParse ==
  /\ netfile = << >>
  /\ lineno = 0
  /\ comp_flag = FALSE
  /\ first_flag = TRUE
  /\ net_json = << >>

\* A run with the BOM flag, the netlist in place.
NoMain ==
  /\ args = [bom |-> TRUE, assy |-> FALSE]
  /\ exists = [net |-> TRUE, top |-> FALSE, bottom |-> FALSE]
  /\ status = "running"
  /\ consulted = {}
  /\ run = 1
  /\ first_out = << >>

\* create_bill_of_materials at line 1034: the output directory cleared, the
\* netlist about to be read.
Init ==
  /\ components = << >>
  /\ pc = "netlist"
  /\ NoOutput
  /\ NoReadme
  /\ NoAssy
  /\ NoParse
  /\ NoMain

\* create_component_list_from_netlist, lines 958-993: one more record of the
\* netlist becomes a Comp(); a designator is unique per board.
ReadComponent ==
  /\ pc = "netlist"
  /\ Len(components) < MaxComps
  /\ \E c \in CompUniverse :
       /\ \A i \in 1..Len(components) : components[i].ref # c.ref
       /\ components' = Append(components, c)
  /\ UNCHANGED << pc, vendors, bom, master_csv, readable_csv, seeed_csv, vendor_csv,
                  bom_md, part_count, place_count, assy_md, othervars >>

\* The list is returned (line 995) and the vendors are collected.
StepFigureVendors ==
  /\ pc = "netlist"
  /\ vendors' = FigureVendors(components)
  /\ pc' = "lines"
  /\ UNCHANGED << components, bom, master_csv, readable_csv, seeed_csv, vendor_csv,
                  bom_md, part_count, place_count, assy_md, othervars >>

StepCreateBomLines ==
  /\ pc = "lines"
  /\ bom' = CreateBomLines(components)
  /\ pc' = "compact"
  /\ UNCHANGED << components, vendors, master_csv, readable_csv, seeed_csv, vendor_csv,
                  bom_md, part_count, place_count, assy_md, othervars >>

\* lines 1094-1162; an exception ends the run before any table is written.
StepCompactRefs ==
  /\ pc = "compact"
  /\ bom' = CompactRefs(bom).bom
  /\ pc' = IF CompactRefs(bom).ok THEN "sort" ELSE "raised"
  /\ UNCHANGED << components, vendors, master_csv, readable_csv, seeed_csv, vendor_csv,
                  bom_md, part_count, place_count, assy_md, othervars >>

StepSortBom ==
  /\ pc = "sort"
  /\ bom' = SortBom(bom)
  /\ pc' = "master"
  /\ UNCHANGED << components, vendors, master_csv, readable_csv, seeed_csv, vendor_csv,
                  bom_md, part_count, place_count, assy_md, othervars >>

StepWriteMaster ==
  /\ pc = "master"
  /\ master_csv' = MasterTable(bom)
  /\ pc' = "readable"
  /\ UNCHANGED << components, vendors, bom, readable_csv, seeed_csv, vendor_csv,
                  bom_md, part_count, place_count, assy_md, othervars >>

StepWriteReadable ==
  /\ pc = "readable"
  /\ readable_csv' = ReadableTable(bom)
  /\ pc' = "seeed"
  /\ UNCHANGED << components, vendors, bom, master_csv, seeed_csv, vendor_csv,
                  bom_md, part_count, place_count, assy_md, othervars >>

StepWriteSeeed ==
  /\ pc = "seeed"
  /\ seeed_csv' = SeeedTable(bom)
  /\ pc' = "vendor_tables"
  /\ UNCHANGED << components, vendors, bom, master_csv, readable_csv, vendor_csv,
                  bom_md, part_count, place_count, assy_md, othervars >>

StepWriteVendorTables ==
  /\ pc = "vendor_tables"
  /\ \E order \in Orders(vendors) :
       /\ vendor_csv' = VendorFiles(bom, order, << >>)
       /\ bom_md' = Markdown(bom, order)
  /\ pc' = "summary"
  /\ UNCHANGED << components, vendors, bom, master_csv, readable_csv, seeed_csv,
                  part_count, place_count, assy_md, othervars >>

StepWriteAssySummary ==
  /\ pc = "summary"
  /\ part_count' = PartCount(bom)
  /\ place_count' = PlaceCount(bom)
  /\ assy_md' = AssySummary(PartCount(bom), PlaceCount(bom))
  /\ pc' = "done"
  /\ UNCHANGED << components, vendors, bom, master_csv, readable_csv, seeed_csv,
                  vendor_csv, bom_md, othervars >>

Next ==
  \/ ReadComponent
  \/ StepFigureVendors
  \/ StepCreateBomLines
  \/ StepCompactRefs
  \/ StepSortBom
  \/ StepWriteMaster
  \/ StepWriteReadable
  \/ StepWriteSeeed
  \/ StepWriteVendorTables
  \/ StepWriteAssySummary

Spec == Init /\ [][Next]_vars

\* ------------------------------------------ update_readme as a state machine
Today == "2 Nov 2026"

\* Lines a README can hold.
HostLines ==
  { << "Description." >>,
    << "- ", UpdatedTag, "1 Jan 2017" >>,
    << BomStartTag, " --->" >>,
    << BomEndTag, " --->" >> }

\* Lines -bom-readme.md can hold: a table row, an empty line, and rows whose
\* description cell holds the text of a tag.
FragLines ==
  { << "|C1-2|2|PART|490-ND|" >>,
    << >>,
    << "|C1|1|", UpdatedTag, "2016|490-ND|" >>,
    << "|C1|1|", BomEndTag, "|490-ND|" >> }

RECURSIVE SeqsUpTo(_, _)
SeqsUpTo(S, n) ==
  IF n = 0 THEN { << >> }
  ELSE LET shorter == SeqsUpTo(S, n - 1)
       IN shorter \cup { Append(q, x) : q \in { y \in shorter : Len(y) = n - 1 }, x \in S }

InitSplice ==
  /\ components = << >>
  /\ pc = "readme"
  /\ NoOutput
  /\ readme \in SeqsUpTo(HostLines, MaxDocLines)
  /\ before = readme
  /\ newlines \in SeqsUpTo(FragLines, MaxFragLines)
  /\ date_update = Today
  /\ splices = 0
  /\ NoAssy
  /\ NoParse
  /\ NoMain

\* update_readme with args.bom, lines 1466-1497; run again with the same
\* fragment and date.
UpdateReadme ==
  /\ pc = "readme"
  /\ splices < MaxSplices
  /\ readme' = Splice(readme, newlines, date_update)
  /\ before' = readme
  /\ splices' = splices + 1
  /\ UNCHANGED << bomvars, newlines, date_update, assyvars, parsevars, mainvars >>

NextSplice == UpdateReadme

SpliceSpec == InitSplice /\ [][NextSplice]_vars

\* ----------------------- create_component_list_from_netlist as a state machine
\* Lines a netlist can hold: the section markers, the records of C1 and C2,
\* a footprint with and without its library, a Type field with and without
\* its value, the library source that closes a record.
NetLines ==
  { << "(components" >>,
    << "  ", "(libparts" >>,
    << "    ", "(comp (ref ", "C", "1", ")" >>,
    << "    ", "(comp (ref ", "C", "2", ")" >>,
    << "    ", "(footprint ", "Wickerlib", ":", "RLC-0402", ")" >>,
    << "    ", "(footprint ", "RLC-0402", ")" >>,
    << "    ", "(field (name ", "Type", ") ", "s", "m", "t", ")", ")" >>,
    << "    ", "(field (name ", "Type", ")", ")" >>,
    << "    ", "(libsource (lib ", "wickerlib", ") ", "(part ", "CAP", ")", ")" >> }

InitParse ==
  /\ components = << >>
  /\ pc = "parse"
  /\ NoOutput
  /\ NoReadme
  /\ NoAssy
  /\ netfile \in SeqsUpTo(NetLines, MaxNetLines)
  /\ lineno = 0
  /\ comp_flag = FALSE
  /\ first_flag = TRUE
  /\ net_json = << JOpen >>
  /\ args = [bom |-> TRUE, assy |-> FALSE]
  /\ exists = [net |-> TRUE, top |-> FALSE, bottom |-> FALSE]
  /\ status = "running"
  /\ consulted = { "net" }
  /\ run = 1
  /\ first_out = << >>

\* lines 896-934: the next line of the file; an exception ends the process.
ParseLine ==
  /\ pc = "parse"
  /\ lineno < Len(netfile)
  /\ LET r == ParseOneLine(netfile[lineno + 1], comp_flag, first_flag, net_json)
     IN /\ lineno' = lineno + 1
        /\ comp_flag' = r.comp_flag
        /\ first_flag' = r.first_flag
        /\ net_json' = r.net_json
        /\ pc' = IF r.ok THEN "parse" ELSE "raised"
        /\ status' = IF r.ok THEN status ELSE "raised"
  /\ UNCHANGED << bomvars_but_pc, readmevars, assyvars, netfile, args, exists, consulted,
                  run, first_out >>

\* lines 936-995: the file is read to its end; the entries are loaded and
\* the Components returned to create_bill_of_materials.
StepLoadComponents ==
  /\ pc = "parse"
  /\ lineno = Len(netfile)
  /\ components' = LoadComponents(net_json).components
  /\ pc' = IF LoadComponents(net_json).ok THEN "netlist" ELSE "raised"
  /\ status' = IF LoadComponents(net_json).ok THEN status ELSE "raised"
  /\ UNCHANGED << vendors, bom, master_csv, readable_csv, seeed_csv, vendor_csv, bom_md,
                  part_count, place_count, assy_md, readmevars, assyvars, parsevars,
                  args, exists, consulted, run, first_out >>

NextParse ==
  \/ ParseLine
  \/ StepLoadComponents

ParseSpec == InitParse /\ [][NextParse]_vars

\* ------------------------------------ create_assembly_files as a state machine
\* What the netlist can say about a part that the manifest prints: Type,
\* X/Y size, value, footprint and manufacturer part number, some of them
\* absent.
AssyKinds ==
  { << Th, "40", "20", "1uF", "RLC-0402", "GRM155" >>,
    << Smt, "40", "20", "1uF", "RLC-0402", "" >>,
    << Smt, "", "", "", "", "GRM155" >>,
    << Dnp, "40", "20", "1uF", "RLC-0402", "GRM155" >>,
    << Both, "40", "20", "1uF", "RLC-0402", "GRM155" >>,
    << << >>, "", "", "1uF", "RLC-0402", "" >> }

AssyRefs == { << "C", "1" >>, << "C", "1", "0" >> }

AssyComps ==
  { [Comp(r, "CAP", "wickerlib", "Wickerlib", k[1], << >>, FALSE, "")
       EXCEPT !.xsize_mils = k[2], !.ysize_mils = k[3], !.value = k[4],
              !.footprint = k[5], !.mf_pn = k[6]] : r \in AssyRefs, k \in AssyKinds }

\* Boards of distinct designators.
DistinctRefs(b) == \A i, j \in 1..Len(b) : i # j => b[i].ref # b[j].ref

\* Lines of a position file: a comment, the lines of C1 and of C10, the line
\* of a designator no Component has, a second line of C1.
PosComment == << << "#", "#" >>, << "E", "n", "d" >> >>

PosC1 ==
  << << "C", "1" >>, << "1", "u", "F" >>, << "0", "4", "0", "2" >>,
     << "1", ".", "2", "5", "0" >>, << "2", ".", "5", "0", "0" >>,
     << "9", "0", ".", "0", "0" >>, << "t", "o", "p" >> >>

PosC10 ==
  << << "C", "1", "0" >>, << "1", "u", "F" >>, << "0", "4", "0", "2" >>,
     << "0", ".", "5", "0", "0", "5" >>, << "-", "2", ".", "5", "0", "0", "0" >>,
     << "1", "8", "0", ".", "0", "0", "0", "0" >>, << "b", "o", "t", "t", "o", "m" >> >>

PosU7 ==
  << << "U", "7" >>, << "I", "C" >>, << "S", "O", "8" >>,
     << "3", ".", "0", "0", "0" >>, << "4", ".", "0", "0", "0" >>,
     << "0", ".", "0", "0" >>, << "t", "o", "p" >> >>

\* C1 once more, on the other side of the board.
PosC1Bottom ==
  << << "C", "1" >>, << "1", "u", "F" >>, << "0", "4", "0", "2" >>,
     << "0", ".", "5", "0", "0" >>, << "1", ".", "0", "0", "0" >>,
     << "2", "7", "0", ".", "0", "0" >>, << "b", "o", "t", "t", "o", "m" >> >>

PosLines == { PosComment, PosC1, PosC1Bottom, PosC10, PosU7 }

InitAssy ==
  /\ components \in { b \in SeqsUpTo(AssyComps, MaxAssyComps) : DistinctRefs(b) }
  /\ pc = "merge"
  /\ NoOutput
  /\ NoReadme
  /\ posfiles \in { f \in SeqsUpTo(PosLines, MaxPosLines) \X SeqsUpTo(PosLines, MaxPosLines) :
                       Len(f[1]) + Len(f[2]) <= MaxPosLines }
  /\ xyrs = << >>
  /\ NoParse
  /\ args = [bom |-> FALSE, assy |-> TRUE]
  /\ exists = [net |-> TRUE, top |-> TRUE, bottom |-> TRUE]
  /\ status = "running"
  /\ consulted = { "net", "top", "bottom" }
  /\ run = 1
  /\ first_out = << >>

\* lines 1368-1380: the position files are opened and merged into the
\* Components; an exception ends the process.
StepMergePositions ==
  /\ pc = "merge"
  /\ components' = MergePositions(components, posfiles).comps
  /\ pc' = IF MergePositions(components, posfiles).ok THEN "xyrs" ELSE "raised"
  /\ status' = IF MergePositions(components, posfiles).ok THEN status ELSE "raised"
  /\ consulted' = consulted \cup { "top", "bottom" }
  /\ UNCHANGED << vendors, bom, master_csv, readable_csv, seeed_csv, vendor_csv, bom_md,
                  part_count, place_count, assy_md, readmevars, assyvars, parsevars,
                  args, exists, run, first_out >>

\* lines 1390-1415
StepWriteXyrs ==
  /\ pc = "xyrs"
  /\ xyrs' = XyrsTable(components)
  /\ pc' = "update_readme"
  /\ UNCHANGED << bomvars_but_pc, posfiles, readmevars, parsevars, mainvars >>

NextAssy ==
  \/ StepMergePositions
  \/ StepWriteXyrs

AssySpec == InitAssy /\ [][NextAssy]_vars

\* ------------------------- create_assembly_files on lines that hold a '#'
\* The line of C1 with the value #4: a '#' that does not begin the line.
PosC1Hash ==
  << << "C", "1" >>, << "#", "4" >>, << "0", "4", "0", "2" >>,
     << "3", ".", "0", "0", "0" >>, << "4", ".", "0", "0", "0" >>,
     << "0", ".", "0", "0" >>, << "b", "o", "t", "t", "o", "m" >> >>

HashLines == { PosComment, PosC1, PosC1Hash, PosC10 }

HashComps == { c \in AssyComps : c.thsmt = Smt \/ c.thsmt = Th }

InitHash ==
  /\ components \in { b \in SeqsUpTo(HashComps, MaxAssyComps) : DistinctRefs(b) }
  /\ pc = "merge"
  /\ NoOutput
  /\ NoReadme
  /\ posfiles \in { f \in SeqsUpTo(HashLines, MaxPosLines) \X SeqsUpTo(HashLines, MaxPosLines) :
                       Len(f[1]) + Len(f[2]) <= MaxPosLines }
  /\ xyrs = << >>
  /\ NoParse
  /\ args = [bom |-> FALSE, assy |-> TRUE]
  /\ exists = [net |-> TRUE, top |-> TRUE, bottom |-> TRUE]
  /\ status = "running"
  /\ consulted = { "net", "top", "bottom" }
  /\ run = 1
  /\ first_out = << >>

HashSpec == InitHash /\ [][NextAssy]_vars

\* ------------------------------ the BOM run on boards of unusual designators
\* Designators around the override of line 1097 and the pattern of line
\* 1101: UA1, UA10 that contains it, and 1C1 that the pattern does not match.
OddRefs ==
  { << "C", "1" >>, << "C", "2" >>, << "1", "C", "1" >>, << "U", "A", "1" >>,
    << "U", "A", "1", "0" >> }

OddComps ==
  { Comp(r, sym, "wickerlib", "Wickerlib", Smt, Digikey, TRUE, "490-ND") :
      r \in OddRefs, sym \in { "CAP", "RES" } }

\* create_bill_of_materials at line 1046, the netlist read.
InitRefs ==
  /\ components \in { b \in SeqsUpTo(OddComps, MaxComps) : DistinctRefs(b) }
  /\ pc = "netlist"
  /\ NoOutput
  /\ NoReadme
  /\ NoAssy
  /\ NoParse
  /\ NoMain

NextRefs ==
  \/ StepFigureVendors
  \/ StepCreateBomLines
  \/ StepCompactRefs
  \/ StepSortBom
  \/ StepWriteMaster
  \/ StepWriteReadable
  \/ StepWriteSeeed
  \/ StepWriteVendorTables
  \/ StepWriteAssySummary

RefSpec == InitRefs /\ [][NextRefs]_vars

\* ------------------------------------------------- __main__ as a state machine
\* The record of one part in a netlist, as eeschema writes it.
NetRecord(ref, type, vendor, vendor_pn, part) ==
  << << "    ", "(comp (ref " >> \o ref \o << ")" >>,
     << "    ", "(value ", "1uF", ")" >>,
     << "    ", "(footprint ", "Wickerlib", ":", "RLC-0402", ")" >>,
     << "    ", "(field (name ", "Description", ") ", "PART", ")" >>,
     << "    ", "(field (name ", "MF_PN", ") ", "GRM155", ")" >>,
     << "    ", "(field (name ", "S1_Name", ") " >> \o vendor \o << ")" >>,
     << "    ", "(field (name ", "S1_PN", ") ", vendor_pn, ")" >>,
     << "    ", "(field (name ", "Type", ") " >> \o type \o << ")", ")" >>,
     << "    ", "(libsource (lib ", "wickerlib", ") ", "(part ", part, ")", ")" >> >>

\* A netlist around the records: the components section, then the library
\* parts and a net whose node names a designator.
Netlist(records) ==
  << << "(export" >>, << "  ", "(components" >> >> \o records
    \o << << "  ", "(libparts" >>,
          << "    ", "(node (ref ", "C", "1", ") ", "(pin ", "1", ")", ")" >> >>

MainNetlists ==
  { Netlist(<< >>),
    Netlist(NetRecord(<< "C", "1" >>, Smt, Digikey, "490-ND", "CAP")),
    Netlist(NetRecord(<< "C", "1" >>, Smt, Digikey, "490-ND", "CAP")
              \o NetRecord(<< "R", "5" >>, Th, Mouser, "71-CRCW", "RES")),
    Netlist(NetRecord(<< "C", "1" >>, Smt, Digikey, "490-ND", "CAP")
              \o NetRecord(<< "C", "2" >>, Smt, Digikey, "490-ND", "CAP")) }

MainPosFiles ==
  { << << PosComment, PosC1 >>, << PosComment >> >>,
    << << PosU7 >>, << PosC1 >> >> }

InitMain ==
  /\ components = << >>
  /\ pc = "main"
  /\ NoOutput
  /\ readme \in { << >>, NewReadme("1 Jan 2017") }
  /\ before = << >>
  /\ newlines = << >>
  /\ date_update = Today
  /\ splices = 0
  /\ posfiles \in MainPosFiles
  /\ xyrs = << >>
  /\ netfile \in MainNetlists
  /\ lineno = 0
  /\ comp_flag = FALSE
  /\ first_flag = TRUE
  /\ net_json = << >>
  /\ args \in [bom : BOOLEAN, assy : BOOLEAN]
  /\ exists \in [net : BOOLEAN, top : BOOLEAN, bottom : BOOLEAN]
  /\ status = "running"
  /\ consulted = {}
  /\ run = 1
  /\ first_out = << >>

\* The files of the bom directory.
Outputs == << master_csv, readable_csv, seeed_csv, vendor_csv, bom_md, assy_md, xyrs >>

\* lines 1028-1030 and 1759-1761 left out: no file is removed
Kept ==
  UNCHANGED << master_csv, readable_csv, seeed_csv, vendor_csv, bom_md, assy_md, xyrs >>

\* lines 1028-1030 and 1759-1761 under the test of line 886
ClearedIfNetlist ==
  IF exists.net
  THEN /\ master_csv' = << >>
       /\ readable_csv' = << >>
       /\ seeed_csv' = << >>
       /\ vendor_csv' = << >>
       /\ bom_md' = << >>
       /\ assy_md' = << >>
       /\ xyrs' = << >>
  ELSE Kept

\* The bom directory emptied (lines 1028-1030 and 1759-1761).
Cleared ==
  /\ master_csv' = << >>
  /\ readable_csv' = << >>
  /\ seeed_csv' = << >>
  /\ vendor_csv' = << >>
  /\ bom_md' = << >>
  /\ assy_md' = << >>
  /\ xyrs' = << >>

\* lines 1753-1771: with the assembly flag the bom directory is emptied
\* (the plots of the manufacturing files are not part of the model); then
\* line 1773 chooses between the BOM and update_readme.
StepPrepare ==
  /\ pc = "main"
  /\ IF args.assy THEN Cleared
     ELSE UNCHANGED << master_csv, readable_csv, seeed_csv, vendor_csv, bom_md, assy_md, xyrs >>
  /\ pc' = IF args.bom \/ args.assy THEN "bom" ELSE "update_readme"
  /\ UNCHANGED << components, vendors, bom, part_count, place_count, readmevars, posfiles,
                  parsevars, mainvars >>

\* lines 1020-1034 and 886-893: create_bill_of_materials empties the bom
\* directory and asks for the Components; without a netlist the process
\* leaves with exit().
StepOpenNetlist ==
  /\ pc = "bom"
  /\ Cleared
  /\ consulted' = consulted \cup { "net" }
  /\ pc' = IF exists.net THEN "parse" ELSE "no_netlist"
  /\ status' = IF exists.net THEN status ELSE "exited"
  /\ components' = << >>
  /\ lineno' = 0
  /\ comp_flag' = FALSE
  /\ first_flag' = TRUE
  /\ net_json' = << JOpen >>
  /\ UNCHANGED << vendors, bom, part_count, place_count, readmevars, posfiles, netfile,
                  args, exists, run, first_out >>

\* line 1773's test in the place of line 1777's
WantsAssyOrBom(a) == a.assy \/ a.bom

\* line 1777: if args.assy
WantsAssy(a) == a.assy

\* lines 1293 and 1777: the BOM is written; the assembly files are next when
\* the assembly flag is set.
StepBomReturns ==
  /\ pc = "done"
  /\ pc' = IF WantsAssy(args) THEN "pos_check" ELSE "update_readme"
  /\ UNCHANGED << bomvars_but_pc, othervars >>

\* lines 1781-1786: exit() when a position file is missing, the top one
\* tested first.
StepCheckPositions ==
  /\ pc = "pos_check"
  /\ consulted' = consulted \cup (IF exists.top THEN { "top", "bottom" } ELSE { "top" })
  /\ pc' = IF ~exists.top THEN "no_top_pos"
           ELSE IF ~exists.bottom THEN "no_bottom_pos" ELSE "merge"
  /\ status' = IF exists.top /\ exists.bottom THEN status ELSE "exited"
  /\ UNCHANGED << bomvars_but_pc, readmevars, assyvars, parsevars, args, exists, run,
                  first_out >>

\* line 1794 and what follows without the PDF flag: update_readme, and the
\* program completes.
StepUpdateReadme ==
  /\ pc = "update_readme"
  /\ status = "running"
  /\ readme' = UpdatedReadme(readme, args, bom_md, assy_md, date_update)
  /\ before' = readme
  /\ splices' = splices + 1
  /\ pc' = "finished"
  /\ status' = "completed"
  /\ UNCHANGED << bomvars_but_pc, newlines, date_update, assyvars, parsevars, args, exists,
                  consulted, run, first_out >>

\* The program is run again on the same inputs.
RunAgain ==
  /\ pc = "finished"
  /\ run < MaxRuns
  /\ run' = run + 1
  /\ first_out' = IF run = 1 THEN Outputs ELSE first_out
  /\ pc' = "main"
  /\ status' = "running"
  /\ consulted' = {}
  /\ UNCHANGED << bomvars_but_pc, readmevars, assyvars, parsevars, args, exists >>

NextMain ==
  \/ StepPrepare
  \/ StepOpenNetlist
  \/ ParseLine
  \/ StepLoadComponents
  \/ StepFigureVendors
  \/ StepCreateBomLines
  \/ StepCompactRefs
  \/ StepSortBom
  \/ StepWriteMaster
  \/ StepWriteReadable
  \/ StepWriteSeeed
  \/ StepWriteVendorTables
  \/ StepWriteAssySummary
  \/ StepBomReturns
  \/ StepCheckPositions
  \/ StepMergePositions
  \/ StepWriteXyrs
  \/ StepUpdateReadme
  \/ RunAgain

MainSpec == InitMain /\ [][NextMain]_vars

\* ------------------------------- one run in a project that was built before
\* What an earlier run left in the bom directory: a file of each kind, told
\* from the files of this run by its text.
OldTable == << << "earlier run" >> >>

OldVendorFiles == [ f \in { << "o", "l", "d" >> } |-> OldTable ]

OldMarkdown == << MdLine("row", << "earlier run" >>) >>

OldOutputs ==
  << OldTable, OldTable, OldTable, OldVendorFiles, OldMarkdown, OldTable, OldTable >>

InitDir ==
  /\ components = << >>
  /\ pc = "main"
  /\ vendors = {}
  /\ bom = << >>
  /\ master_csv = OldTable
  /\ readable_csv = OldTable
  /\ seeed_csv = OldTable
  /\ vendor_csv = OldVendorFiles
  /\ bom_md = OldMarkdown
  /\ part_count = 0
  /\ place_count = 0
  /\ assy_md = OldTable
  /\ xyrs = OldTable
  /\ readme \in { << >>, NewReadme("1 Jan 2017") }
  /\ before = << >>
  /\ newlines = << >>
  /\ date_update = Today
  /\ splices = 0
  /\ posfiles \in MainPosFiles
  /\ netfile \in MainNetlists
  /\ lineno = 0
  /\ comp_flag = FALSE
  /\ first_flag = TRUE
  /\ net_json = << >>
  /\ args \in [bom : BOOLEAN, assy : BOOLEAN]
  /\ exists \in [net : BOOLEAN, top : BOOLEAN, bottom : BOOLEAN]
  /\ status = "running"
  /\ consulted = {}
  /\ run = 1
  /\ first_out = << >>

NextOnce ==
  \/ StepPrepare
  \/ StepOpenNetlist
  \/ ParseLine
  \/ StepLoadComponents
  \/ StepFigureVendors
  \/ StepCreateBomLines
  \/ StepCompactRefs
  \/ StepSortBom
  \/ StepWriteMaster
  \/ StepWriteReadable
  \/ StepWriteSeeed
  \/ StepWriteVendorTables
  \/ StepWriteAssySummary
  \/ StepBomReturns
  \/ StepCheckPositions
  \/ StepMergePositions
  \/ StepWriteXyrs
  \/ StepUpdateReadme

DirSpec == InitDir /\ [][NextOnce]_vars

\* ------------------------------------------------------------------ claims
\* Helpers of the claims: what the netlist says, independent of the BOM.

\* The Components whose mount type is exactly th, smt or dnp.
ExactlyPlaced == { i \in 1..Len(components) : components[i].thsmt \in { Th, Smt, Dnp } }

\* The Components the BOM loop takes in (line 1064).
Included == { i \in 1..Len(components) : ToBePlaced(components[i]) }

\* The designators of the included Components with symbol sym, in netlist order.
RECURSIVE RefsWithSymbol(_, _)
RefsWithSymbol(comps, sym) ==
  IF comps = << >> THEN << >>
  ELSE (IF ToBePlaced(Head(comps)) /\ Head(comps).symbol = sym
        THEN << Head(comps).ref >> ELSE << >>)
       \o RefsWithSymbol(Tail(comps), sym)

\* The first included Component with symbol sym.
FirstSeen(sym) ==
  CHOOSE i \in Included :
    /\ components[i].symbol = sym
    /\ \A j \in Included : components[j].symbol = sym => i <= j

RECURSIVE SumQty(_)
SumQty(b) == IF b = << >> THEN 0 ELSE Head(b).qty + SumQty(Tail(b))

\* C1: after BomAggregator the quantities of the BOM lines add up to the
\* number of Components whose mount type is exactly th, smt or dnp; no
\* Component of another mount type is counted.
C1_QuantitiesCountExactTypes ==
  pc = "compact" => SumQty(bom) = Cardinality(ExactlyPlaced)

\* C2: after BomAggregator there is one BOM line per distinct symbol name of
\* the included Components (whatever the library), in first-seen order of
\* the symbols, each holding the designators of the included Components of
\* its symbol in netlist order, and as its quantity their number.
C2_OneLinePerSymbol ==
  pc = "compact" =>
    /\ \A i, j \in 1..Len(bom) : i # j => bom[i].symbol # bom[j].symbol
    /\ { bom[i].symbol : i \in 1..Len(bom) } = { components[k].symbol : k \in Included }
    /\ \A i, j \in 1..Len(bom) :
         i < j => FirstSeen(bom[i].symbol) < FirstSeen(bom[j].symbol)
    /\ \A i \in 1..Len(bom) :
         /\ Split(bom[i].refs) = RefsWithSymbol(components, bom[i].symbol)
         /\ bom[i].qty = Len(RefsWithSymbol(components, bom[i].symbol))

\* Two lines, the first merged from two Components of different libraries
\* with a Component of the other line's symbol between them.
C2_Witness ==
  /\ pc = "compact"
  /\ Len(bom) = 2
  /\ bom[1].qty = 2
  /\ components[2].symbol = bom[2].symbol
  /\ \E i, j \in Included :
       /\ components[i].symbol = components[j].symbol
       /\ components[i].sym_lib # components[j].sym_lib

\* The designators merged into BOM line i, from the netlist.
Merged(i) == RefsWithSymbol(components, bom[i].symbol)

Suffix(ref) == SubSeq(ref, Len(LeadingLetters(ref)) + 1, Len(ref))

\* Designators that share one alphabetic prefix and have numeric suffixes.
SharePrefix(refs) ==
  /\ refs # << >>
  /\ \A k \in 1..Len(refs) :
       /\ LeadingLetters(refs[k]) # << >>
       /\ LeadingLetters(refs[k]) = LeadingLetters(refs[1])
       /\ IsIntLiteral(Suffix(refs[k]))

Numbers(refs) == { ToInt(Suffix(refs[k])) : k \in 1..Len(refs) }

DashAt(t) == CHOOSE k \in 1..Len(t) : t[k] = "-"

\* One word of a compacted string expanded: prefix+n is itself, and
\* prefix+first-last is every designator from first to last; a word of
\* neither form expands to nothing.
ExpandWord(w) ==
  LET lead == LeadingLetters(w)
      rest == Suffix(w)
  IN IF IsIntLiteral(rest) THEN { lead \o ToStr(ToInt(rest)) }
     ELSE IF /\ \E k \in 1..Len(rest) : rest[k] = "-"
             /\ IsIntLiteral(SubSeq(rest, 1, DashAt(rest) - 1))
             /\ IsIntLiteral(SubSeq(rest, DashAt(rest) + 1, Len(rest)))
     THEN { lead \o ToStr(n) :
              n \in ToInt(SubSeq(rest, 1, DashAt(rest) - 1))
                    .. ToInt(SubSeq(rest, DashAt(rest) + 1, Len(rest))) }
     ELSE {}

Expand(str) == UNION { ExpandWord(Split(str)[k]) : k \in 1..Len(Split(str)) }

\* C3: round trip.  For a BOM line whose designators share one alphabetic
\* prefix and have numeric suffixes, the compacted string split on spaces,
\* its ranges expanded, is the set of the line's designators, in whatever
\* order they were merged.
C3_RoundTrip ==
  pc = "sort" =>
    \A i \in 1..Len(bom) :
      SharePrefix(Merged(i)) =>
        Expand(bom[i].refs) = { Merged(i)[k] : k \in 1..Len(Merged(i)) }

\* The maximal runs of consecutive integers of S in ascending order, a run of
\* one as n and a longer one as first-last.
Least(S) == CHOOSE n \in S : \A m \in S : n <= m

RunEnd(S, a) == CHOOSE m \in S : m >= a /\ (\A n \in a..m : n \in S) /\ (m + 1) \notin S

RECURSIVE MaximalRuns(_)
MaximalRuns(S) ==
  IF S = {} THEN << >>
  ELSE LET a == Least(S)
           m == RunEnd(S, a)
       IN << IF a = m THEN ToStr(a) ELSE ToStr(a) \o << "-" >> \o ToStr(m) >>
          \o MaximalRuns(S \ (a..m))

\* C4: for a BOM line with a common prefix and distinct numeric suffixes the
\* compacted string is the maximal runs of consecutive numbers in ascending
\* order, each with the prefix, joined by single spaces.
C4_MaximalRuns ==
  pc = "sort" =>
    \A i \in 1..Len(bom) :
      SharePrefix(Merged(i)) =>
        bom[i].refs =
          Join([ k \in 1..Len(MaximalRuns(Numbers(Merged(i)))) |->
                   LeadingLetters(Merged(i)[1]) \o MaximalRuns(Numbers(Merged(i)))[k] ])

\* The data rows of a table.
DataRows(t) == 2..Len(t)

\* C5: the master and the readable CSV hold the header and one data row per
\* BOM line; in each data row Qty is the line's quantity (the number of
\* Components merged into it) and Qty3 is three times Qty; the Seeed CSV and
\* the vendor CSVs give the same quantity for the same line.
C5_QuantitiesAgree ==
  pc = "done" =>
    /\ master_csv[1] = MasterHeader
    /\ readable_csv[1] = ReadableHeader
    /\ Len(master_csv) = Len(bom) + 1
    /\ Len(readable_csv) = Len(bom) + 1
    /\ Len(bom) = Cardinality({ components[k].symbol : k \in Included })
    /\ \A i \in 1..Len(bom) :
         LET m == master_csv[i + 1]
             r == readable_csv[i + 1]
         IN /\ IsIntLiteral(m[2]) /\ IsIntLiteral(m[3])
            /\ ToInt(m[2]) = Len(Merged(i))
            /\ ToInt(m[3]) = 3 * ToInt(m[2])
            /\ r[1] = m[1] /\ r[2] = m[2] /\ r[3] = m[3]
            /\ \E j \in DataRows(seeed_csv) :
                 seeed_csv[j][1] = m[1] /\ seeed_csv[j][3] = m[2]
            /\ \A f \in DOMAIN vendor_csv : \A j \in DataRows(vendor_csv[f]) :
                 vendor_csv[f][j][1] = m[1] =>
                   vendor_csv[f][j][2] = m[2] /\ vendor_csv[f][j][3] = m[3]

\* A line of two Components, printed as 2 and 6, that a vendor table lists.
C5_Witness ==
  /\ pc = "done"
  /\ \E i \in 1..Len(bom) :
       /\ Len(Merged(i)) = 2
       /\ master_csv[i + 1][2] = << "2" >>
       /\ master_csv[i + 1][3] = << "6" >>
       /\ \E f \in DOMAIN vendor_csv : \E j \in DataRows(vendor_csv[f]) :
            vendor_csv[f][j][1] = master_csv[i + 1][1]

\* C6: in every master row the footprint-library and the symbol-library cell
\* are those of the first-seen Component of the line's symbol.
C6_LibraryCells ==
  pc = "done" =>
    \A i \in 1..Len(bom) :
      /\ master_csv[i + 1][5] = components[FirstSeen(bom[i].symbol)].fp_lib
      /\ master_csv[i + 1][7] = components[FirstSeen(bom[i].symbol)].sym_lib

\* C7: the rows of the master and of the readable table are in non-decreasing
\* lexicographic order of the compacted designator string, and both tables
\* list the lines in the same order.
C7_RowsSortedAsStrings ==
  pc = "done" =>
    /\ \A i, j \in DataRows(master_csv) :
         i < j => ~StrLess(master_csv[j][1], master_csv[i][1])
    /\ \A i, j \in DataRows(readable_csv) :
         i < j => ~StrLess(readable_csv[j][1], readable_csv[i][1])
    /\ Len(master_csv) = Len(readable_csv)
    /\ \A i \in DataRows(master_csv) : master_csv[i][1] = readable_csv[i][1]

\* The row C10 right before the row C2, from a netlist that has C2 first.
C7_Witness ==
  /\ pc = "done"
  /\ Len(components) >= 2
  /\ components[1].ref = << "C", "2" >>
  /\ \E i \in DataRows(master_csv) :
       /\ i + 1 \in DataRows(master_csv)
       /\ master_csv[i][1] = << "C", "1", "0" >>
       /\ master_csv[i + 1][1] = << "C", "2" >>
       /\ readable_csv[i + 1][1] = << "C", "2" >>

\* The vendor a vendor CSV was written for: its header ends in '<vendor> PN'.
VendorOfTable(t) == SubSeq(t[1][5], 1, Len(t[1][5]) - Len(PN))

\* The supplier names the BOM lines carry.
CarriedSuppliers ==
  { bom[i].s1_name : i \in { k \in 1..Len(bom) : bom[k].qty > 0 /\ bom[k].s1_name # << >> } }

\* C8: the vendors that get a table are the distinct supplier names that BOM
\* lines with a quantity carry: no table for a name no line carries, a table
\* for every non-empty name of a line.
C8_VendorTablesAreCarriedSuppliers ==
  pc = "done" =>
    /\ { VendorOfTable(vendor_csv[f]) : f \in DOMAIN vendor_csv } = CarriedSuppliers
    /\ \A f \in DOMAIN vendor_csv : DataRows(vendor_csv[f]) # {}

\* The vendor of the Markdown table that line k of bom_md belongs to.
MdHeaderBefore(k) ==
  CHOOSE h \in 1..k :
    /\ bom_md[h].kind = "header"
    /\ \A g \in (h + 1)..k : bom_md[g].kind # "header"

MdVendorAt(k) ==
  SubSeq(bom_md[MdHeaderBefore(k)].cells[4], 1,
         Len(bom_md[MdHeaderBefore(k)].cells[4]) - Len(PN))

MdRows == { k \in 1..Len(bom_md) : bom_md[k].kind = "row" }

\* C9: a vendor table (CSV or Markdown) lists only BOM lines of that
\* supplier, and every BOM line with a quantity and a supplier name is in
\* exactly one vendor table, its supplier's.
C9_LinesInOwnVendorTable ==
  pc = "done" =>
    /\ \A f \in DOMAIN vendor_csv : \A j \in DataRows(vendor_csv[f]) :
         \E i \in 1..Len(bom) :
           /\ bom[i].refs = vendor_csv[f][j][1]
           /\ bom[i].s1_name = VendorOfTable(vendor_csv[f])
    /\ \A k \in MdRows :
         \E i \in 1..Len(bom) :
           /\ bom[i].refs = bom_md[k].cells[1]
           /\ bom[i].s1_name = MdVendorAt(k)
    /\ \A i \in 1..Len(bom) :
         (bom[i].qty > 0 /\ bom[i].s1_name # << >>) =>
           /\ Cardinality({ f \in DOMAIN vendor_csv :
                              \E j \in DataRows(vendor_csv[f]) :
                                vendor_csv[f][j][1] = bom[i].refs }) = 1
           /\ Cardinality({ k \in MdRows : bom_md[k].cells[1] = bom[i].refs }) = 1

\* The lines of a document d that hold tag x.
LinesWith(d, x) == { k \in 1..Len(d) : InLine(x, d[k]) }

\* A document with one bom start marker line and one bom end marker line
\* after it.
OneMarkerPair(d) ==
  /\ Cardinality(LinesWith(d, BomStartTag)) = 1
  /\ Cardinality(LinesWith(d, BomEndTag)) = 1
  /\ \A a \in LinesWith(d, BomStartTag) : \A b \in LinesWith(d, BomEndTag) : a < b

\* What stands between the first bom start marker and the last bom end marker.
BetweenMarkers(d) ==
  LET a == CHOOSE k \in LinesWith(d, BomStartTag) : \A j \in LinesWith(d, BomStartTag) : k <= j
      b == CHOOSE k \in LinesWith(d, BomEndTag) : \A j \in LinesWith(d, BomEndTag) : j <= k
  IN SubSeq(d, a + 1, b - 1)

\* C10: the splice is idempotent (a second update_readme with the same
\* fragment and date leaves README.md as the first made it), and after a
\* splice the markers enclose exactly the section heading and the fragment.
C10_SpliceIdempotent ==
  /\ splices = 2 => readme = before
  /\ (splices = 1 /\ OneMarkerPair(before)) =>
       BetweenMarkers(readme) = Heading \o newlines

\* The lines of the host document before its bom start marker and after its
\* bom end marker (after the last one, where the fragment brought another).
FirstLine(d, x) == CHOOSE k \in LinesWith(d, x) : \A j \in LinesWith(d, x) : k <= j
LastLine(d, x) == CHOOSE k \in LinesWith(d, x) : \A j \in LinesWith(d, x) : j <= k

BeforeStart(d) == SubSeq(d, 1, FirstLine(d, BomStartTag) - 1)
AfterEnd(d) == SubSeq(d, LastLine(d, BomEndTag) + 1, Len(d))

Changed(x, y) == { k \in 1..Len(x) : x[k] # y[k] }

\* C11: for a host document with a bom start marker line and a bom end
\* marker line after it, the splice leaves the lines before the start marker
\* and the lines after the end marker as they were and in their order, but
\* for a single last-updated line.
C11_OutsideMarkersUnchanged ==
  (splices = 1 /\ OneMarkerPair(before)) =>
    /\ Len(BeforeStart(readme)) = Len(BeforeStart(before))
    /\ Len(AfterEnd(readme)) = Len(AfterEnd(before))
    /\ Cardinality(Changed(BeforeStart(before), BeforeStart(readme)))
         + Cardinality(Changed(AfterEnd(before), AfterEnd(readme))) <= 1

\* The values -assy-readme.md prints after a label.
SummaryValue(label) ==
  LET k == CHOOSE j \in 1..Len(assy_md) : assy_md[j] # << >> /\ assy_md[j][1] = label
  IN Tail(assy_md[k])

PopulatedLines == { i \in 1..Len(bom) : bom[i].qty > 0 }

\* C16: the summary's number of parts is the number of BOM lines with a
\* quantity above 0, and its number of placements is the sum of their
\* quantities.
C16_SummaryCounts ==
  pc = "done" =>
    /\ SummaryValue(PartsLabel) = ToStr(Cardinality(PopulatedLines))
    /\ SummaryValue(PlacementsLabel) = ToStr(SumQty(bom))

\* The lines of the two position files that are not comments.
PosLinesOf(f) == { posfiles[f][k] : k \in 1..Len(posfiles[f]) }

DataLines == { l \in PosLinesOf(1) \cup PosLinesOf(2) : ~IsComment(l) }

\* The designators the position files name.
Named == { l[1] : l \in DataLines }

OnlyLocationDiffers(c, d) ==
  d = [c EXCEPT !.xloc = d.xloc, !.yloc = d.yloc, !.rot = d.rot, !.side = d.side]

\* C13: the position merge changes nothing but the location, rotation and
\* side of the Components whose designator starts a position line; every
\* other Component stays as it was, a line with the designator of no
\* Component changes nothing, and the run goes on.
C13_MergeChangesOnlyNamed ==
  [][pc = "merge" =>
       /\ Len(components') = Len(components)
       /\ \A i \in 1..Len(components) :
            /\ OnlyLocationDiffers(components[i], components'[i])
            /\ components[i].ref \notin Named => components'[i] = components[i]
       /\ status' = "running"
       /\ UNCHANGED << bom, xyrs, posfiles >>]_vars

\* A merge done: a line named no Component, one Component was located and
\* one, in neither file, still has no location.
C13_Witness ==
  /\ pc = "xyrs"
  /\ \E l \in DataLines : \A i \in 1..Len(components) : components[i].ref # l[1]
  /\ \E i \in 1..Len(components) : components[i].xloc # << >> /\ components[i].side # << >>
  /\ \E i \in 1..Len(components) :
       /\ components[i].ref \notin Named
       /\ components[i].xloc = << >> /\ components[i].yloc = << >>
       /\ components[i].rot = << >> /\ components[i].side = << >>

IsThOrSmt(c) == c.thsmt = Th \/ c.thsmt = Smt

\* C14: the manifest has one record, in the order of the Components, for
\* each Component of Type th or smt and for no other; its Type column is 2
\* exactly for th and 1 exactly for smt.
C14_OneRecordPerPlaced ==
  xyrs # << >> =>
    LET placed == SelectSeq(components, IsThOrSmt)
    IN /\ Len(xyrs) = Len(placed) + 1
       /\ \A k \in 1..Len(placed) :
            /\ xyrs[k + 1][1] = placed[k].ref
            /\ xyrs[k + 1][6] = "2" <=> placed[k].thsmt = Th
            /\ xyrs[k + 1][6] = "1" <=> placed[k].thsmt = Smt

\* A manifest of a board with a Component left out and one written.
C14_Witness ==
  /\ Len(xyrs) = 2
  /\ Len(components) = 2
  /\ \E i \in 1..2 : components[i].thsmt \in { Dnp, Both, << >> }

\* C15: every record of the manifest has the 12 columns of the header.
C15_TwelveColumns ==
  \A k \in 1..Len(xyrs) : Len(xyrs[k]) = 12

\* The positions in the netlist of the lines with '(ref ' that stand after
\* a '(components' line and have no '(libparts' line before or on them.
RefLines ==
  { k \in 1..Len(netfile) :
      /\ Has("(ref ", netfile[k])
      /\ \E j \in 1..(k - 1) : Has("(components", netfile[j])
      /\ \A j \in 1..k : ~Has("(libparts", netfile[j]) }

\* The designator a '(ref ' line names.
RefOf(line) == LStrip(Without(RemoveParens(line), { "(comp (ref " }))

\* The positions of S in ascending order.
RECURSIVE Ascending(_)
Ascending(S) ==
  IF S = {} THEN << >>
  ELSE LET m == CHOOSE x \in S : \A y \in S : x <= y
       IN << m >> \o Ascending(S \ { m })

\* C17: the Components the parser returns are those of the '(ref ' lines
\* between a '(components' line and the first '(libparts' line, in the order
\* of these lines.
C17_ComponentsOfSection ==
  (pc = "netlist" /\ lineno = Len(netfile)) =>
    [k \in 1..Len(components) |-> components[k].ref]
      = [k \in 1..Cardinality(RefLines) |-> RefOf(netfile[Ascending(RefLines)[k]])]

\* C18: the parser does not abort on a netlist that exists.
C18_ParserNeverAborts ==
  pc # "raised" /\ status # "raised"

\* exit() without an argument raises SystemExit(None): exit status 0.  An
\* exception that nothing catches ends the process with status 1.
ExitStatus == IF status = "raised" THEN 1 ELSE 0

NoBomOutput ==
  /\ master_csv = << >>
  /\ readable_csv = << >>
  /\ seeed_csv = << >>
  /\ vendor_csv = << >>
  /\ bom_md = << >>
  /\ assy_md = << >>

\* C19: a run that stops for a missing netlist or position file ends with
\* a non-zero exit status, and the run without a netlist has written no BOM
\* output file.
C19_MissingInputExitsNonZero ==
  /\ pc \in { "no_netlist", "no_top_pos", "no_bottom_pos" } => ExitStatus # 0
  /\ pc = "no_netlist" => NoBomOutput

\* C20: with the assembly flag and a position file missing the run stops
\* before the manifest is opened; without the assembly flag the run asks for
\* no position file and does not stop before it completes, whether or not
\* the position files exist.
C20_PositionsNeededForAssyOnly ==
  /\ (args.assy /\ (~exists.top \/ ~exists.bottom)) =>
       /\ xyrs = << >>
       /\ pc \notin { "merge", "xyrs" }
       /\ pc \in { "update_readme", "finished" } => ~exists.net
  /\ ~args.assy =>
       /\ consulted \cap { "top", "bottom" } = {}
       /\ pc \notin { "no_top_pos", "no_bottom_pos", "pos_check", "merge", "xyrs" }
       /\ exists.net => status \in { "running", "completed" }

\* A BOM-only run that completed without the position files.
C20_Witness ==
  /\ args.bom /\ ~args.assy
  /\ ~exists.top /\ ~exists.bottom
  /\ pc = "finished"
  /\ master_csv # << >>

TenThousandths(s) ==
  (IF IsNegative(s) THEN -1 ELSE 1)
    * ToInt(IntPart(s) \o FracPart(s)) * Pow10(4 - Len(FracPart(s)))

Distance(a, b) == IF a >= b THEN a - b ELSE b - a

\* The position files have the one line l for its designator.
OnlyLineOf(l) == l \in DataLines /\ \A m \in DataLines : m[1] = l[1] => m = l

\* C21: after the merge a Component named by a position line
\* 'designator t1 t2 x y rotation side' has the location (x*1000, y*1000),
\* the rotation written with exactly two decimals and nearest to the one of
\* the line, and the side token of the line as it stands.
C21_LocatedInMils ==
  pc \in { "xyrs", "update_readme" } =>
    \A i \in 1..Len(components) : \A l \in DataLines :
      (OnlyLineOf(l) /\ l[1] = components[i].ref) =>
        /\ TenThousandths(components[i].xloc) = 1000 * TenThousandths(l[4])
        /\ TenThousandths(components[i].yloc) = 1000 * TenThousandths(l[5])
        /\ Len(FracPart(components[i].rot)) = 2
        /\ Distance(TenThousandths(components[i].rot), TenThousandths(l[6])) <= 50
        /\ components[i].side = l[7]

\* The line 'C1 1uF 0402 1.250 2.500 90.00 top' merged into the
\* surface-mount C1 and its record written with the Type code 1.
C21_Witness ==
  /\ pc = "update_readme"
  /\ PosC1 \in DataLines
  /\ \E i \in 1..Len(components) :
       /\ components[i].ref = << "C", "1" >>
       /\ components[i].thsmt = Smt
       /\ components[i].xloc = << "1", "2", "5", "0", ".", "0" >>
       /\ components[i].yloc = << "2", "5", "0", "0", ".", "0" >>
       /\ components[i].rot = << "9", "0", ".", "0", "0" >>
       /\ components[i].side = << "t", "o", "p" >>
       /\ \E k \in 2..Len(xyrs) :
            /\ xyrs[k][1] = components[i].ref
            /\ xyrs[k][2] = components[i].xloc
            /\ xyrs[k][6] = "1"

\* The designators the label UA1-UF1 stands for.
ReservedRefs ==
  { << "U", "A", "1" >>, << "U", "B", "1" >>, << "U", "C", "1" >>,
    << "U", "D", "1" >>, << "U", "E", "1" >>, << "U", "F", "1" >> }

MergedSet(i) == { Merged(i)[k] : k \in 1..Len(Merged(i)) }

\* C22: a BOM line is rendered as the fixed label UA1-UF1 only when its
\* designators are exactly the reserved ones; a line that has UA1 among
\* other designators, or a designator such as UA10, is not.
C22_OverrideOnlyForReservedSet ==
  pc = "sort" =>
    \A i \in 1..Len(bom) : bom[i].refs = OverrideLabel => MergedSet(i) = ReservedRefs

\* The designator string of BOM line i before the compaction (line 1082).
JoinedRefs(i) == Join(Merged(i))

\* The first designator of line i is not letters followed by a digit.
Unmatched(i) == ~ReMatches(Merged(i)[1])

\* Every line the pattern matches is one the compaction renders: the fixed
\* label, or a common prefix with numeric suffixes.
MatchedLinesCompact ==
  \A j \in 1..Len(bom) :
    ReMatches(Merged(j)[1]) => (HasOverride(JoinedRefs(j)) \/ SharePrefix(Merged(j)))

\* C23: a BOM line whose first designator the pattern does not match does
\* not end the run, and its rendered string does not begin with the prefix
\* extracted for a line before it unless its own designators begin so.
C23_UnmatchedLineFallsBack ==
  (pc \in { "sort", "raised" } /\ MatchedLinesCompact) =>
    /\ pc = "sort"
    /\ \A i \in 1..Len(bom) : \A j \in 1..(i - 1) :
         (/\ Unmatched(i)
          /\ ReMatches(Merged(j)[1])
          /\ StartsWith(bom[i].refs, LeadingLetters(Merged(j)[1])))
           => StartsWith(JoinedRefs(i), LeadingLetters(Merged(j)[1]))

\* The lines of the position files that do not begin with '#'.
BeginsWithHash(l) == l # << >> /\ l[1] # << >> /\ l[1][1] = "#"

PositionLines == { l \in PosLinesOf(1) \cup PosLinesOf(2) : ~BeginsWithHash(l) }

\* C24: a position line is skipped exactly when it begins with '#'.  A
\* Component whose designator is the first token of one line that does not
\* begin with '#', and of no other such line, has after the merge the
\* location, rotation and side of that line, wherever else the line holds
\* a '#'.
C24_SkippedIffBeginsWithHash ==
  pc \in { "xyrs", "update_readme" } =>
    \A i \in 1..Len(components) : \A l \in PositionLines :
      (l[1] = components[i].ref /\ \A m \in PositionLines : m[1] = l[1] => m = l) =>
        components[i] = Located(components[i], l)

\* The files of the bom directory by position in Outputs: what is there,
\* what an earlier run left, what this run wrote.
Files == 1..Len(Outputs)

FromEarlierRun(f) == Outputs[f] = OldOutputs[f]

WrittenNow(f) == Outputs[f] # << >> /\ ~FromEarlierRun(f)

\* A step that removes a file from the bom directory.
Deletes == \E f \in Files : Outputs[f] # << >> /\ Outputs'[f] = << >>

C26_MissingNetlistEmptiesDir ==
  pc = "no_netlist" => \A f \in Files : Outputs[f] = << >>

\* A run with the BOM flag alone, in a project that was built before,
\* stopped for the missing netlist.
C26_Witness ==
  /\ pc = "no_netlist"
  /\ args.bom /\ ~args.assy
  /\ ~exists.net
  /\ status = "exited"
  /\ Outputs # OldOutputs

\* The bom start marker lines of document d with no bom end marker line
\* after them, and the first of them.
Unclosed(d) ==
  { k \in LinesWith(d, BomStartTag) : \A j \in LinesWith(d, BomEndTag) : j <= k }

FirstUnclosed(d) == CHOOSE k \in Unclosed(d) : \A j \in Unclosed(d) : k <= j

\* The last-updated lines of d after line k.
UpdatedAfter(d, k) == { j \in LinesWith(d, UpdatedTag) : j > k }

\* C27: when the host document has a bom start marker line with no bom end
\* marker line after it, the rewritten document ends with that marker line,
\* the section heading, the fragment and one last-updated line for each
\* line with 'Updated: ' that followed the marker: every other line that
\* followed the marker is dropped.
C27_UnclosedSectionDropsTail ==
  (splices >= 1 /\ Unclosed(before) # {}) =>
    LET k == FirstUnclosed(before)
        u == Cardinality(UpdatedAfter(before, k))
        n == Len(readme)
        m == n - u - Len(newlines) - 2
    IN /\ m >= 1
       /\ readme[m] = before[k]
       /\ SubSeq(readme, m + 1, m + 2) = Heading
       /\ SubSeq(readme, m + 3, m + 2 + Len(newlines)) = newlines
       /\ \A j \in (n - u + 1)..n : readme[j] = UpdatedLine(date_update)

\* A host document whose unclosed bom section was followed by a line of
\* text that the rewritten document no longer has.
C27_Witness ==
  /\ splices = 1
  /\ Unclosed(before) # {}
  /\ \E j \in 1..Len(before) : j > FirstUnclosed(before) /\ before[j] = << "Description." >>
  /\ \A i \in 1..Len(readme) : readme[i] # << "Description." >>

\* The document update_readme scans: README.md, or the one create_readme
\* writes when there is none.
Host == IF before = << >> THEN NewReadme(date_update) ELSE before

\* What stands between the assy start marker and the assy end marker.
AssySection(d) ==
  SubSeq(d, FirstLine(d, AssyStartTag) + 1, FirstLine(d, AssyEndTag) - 1)

IsData(l) == ~IsComment(l)

LinesInOrder == SelectSeq(posfiles[1] \o posfiles[2], IsData)

\* The last of them that names designator ref.
LastNaming(ref) ==
  CHOOSE k \in 1..Len(LinesInOrder) :
    /\ LinesInOrder[k][1] = ref
    /\ \A j \in (k + 1)..Len(LinesInOrder) : LinesInOrder[j][1] # ref

\* C29: the position lines are applied in the order of the files, top
\* before bottom, and of their lines: a Component named by several lines
\* ends with the location, rotation and side of the last of them.
C29_LastLineWins ==
  pc \in { "xyrs", "update_readme" } =>
    \A i \in 1..Len(components) :
      components[i].ref \in Named =>
        components[i] = Located(components[i], LinesInOrder[LastNaming(components[i].ref)])

\* C1 named in -top.pos and, with other values, in -bottom.pos: it has the
\* side of the bottom line.
C29_Witness ==
  /\ pc = "xyrs"
  /\ PosC1 \in PosLinesOf(1)
  /\ PosC1Bottom \in PosLinesOf(2)
  /\ \E i \in 1..Len(components) :
       /\ components[i].ref = << "C", "1" >>
       /\ components[i].side = << "b", "o", "t", "t", "o", "m" >>
       /\ components[i].rot = << "2", "7", "0", ".", "0", "0" >>

\* The Components with a record in the manifest, and the BOM lines that
\* count Component c.
InManifestNow == { i \in 1..Len(components) : \E k \in 2..Len(xyrs) : xyrs[k][1] = components[i].ref }

LinesCounting(c) == { i \in 1..Len(bom) : ToBePlaced(c) /\ bom[i].symbol = c.symbol }

\* C30: every Component with a record in the manifest is counted in exactly
\* one BOM line of the run, and the manifest has no more records than the
\* number of placements that the assembly summary reports.
C30_ManifestWithinPlacements ==
  (pc \in { "update_readme", "finished" } /\ xyrs # << >>) =>
    /\ \A i \in InManifestNow : Cardinality(LinesCounting(components[i])) = 1
    /\ Len(xyrs) - 1 <= ToInt(SummaryValue(PlacementsLabel))

====
